---- MODULE Spec2Model ----
(***************************************************************************)
(* Model of the ExcelModifier class of the Excel colorizer script.         *)
(*                                                                         *)
(* Two revisions of the class live in the repository:                      *)
(*   src/main.py                    colorize_columns                       *)
(*   src/excel_modifier/__init__.py colourize_columns/_colourize_columns   *)
(* Both compute, per column, the pair of percentile bounds with            *)
(* pandas.Series.quantile and then walk the rows of the column, calling    *)
(* worksheet.write for the cells that lie in the upper or lower margin.    *)
(*                                                                         *)
(* Numbers.  A float (a cell value, a percentage, a bound) is an IEEE      *)
(* double <<sign, m, e>>: the number sign * m * 2^e, sign 1 or -1, with m  *)
(* a natural number of at most 53 bits written as the sequence of its      *)
(* digits in the base 2^14, the lowest first.  A whole number below 2^53   *)
(* has e = 0 (3.0 is <<1, <<3>>, 0>>), any other number has an odd m (0.5  *)
(* is <<1, <<1>>, -1>>).  <<1, <<0>>, 0>> and <<-1, <<0>>, 0>> are 0.0 and *)
(* -0.0, <<1, <<0>>, 1>> and <<-1, <<0>>, 1>> are inf and -inf,            *)
(* <<0, <<0>>, 0>> is NaN.  Every operation rounds its exact result to the *)
(* nearest double, ties to the even neighbour, as the hardware does.       *)
(*                                                                         *)
(* Strings.  An instructions string is a string; its characters are read   *)
(* with SubSeq.                                                            *)
(***************************************************************************)
EXTENDS Integers, Sequences, FiniteSets, TLC

\* Largest number of data rows of a generated sheet.
MaxLen == 3

\* The divisor of the percentages: upper_bound / 100.0, lower_bound / 100.0,
\* majority_percentage / 100.
Scale == 100

VARIABLES
    sheets_to_modify,   \* self.sheets_to_modify: sequence of [name, data]
    formats,            \* workbook_writer.book.formats: the formats added, in order
    call,               \* the colourizing call made, [fn |-> "none"] before it
    outcome,            \* "none", "ok", or the exception that ended the call
    bounds,             \* the bounds dictionary of the call: column -> <<x, y>>
    repeated,           \* the colourizing call was made again with the same arguments
    returned,           \* the pair a direct call of _calculate_bounds returned
    writes,             \* the worksheet.write calls of the call, in order
    worksheet           \* the cells written: <<sheet, row, col>> -> [value, format]

vars == <<sheets_to_modify, formats, call, outcome, bounds, repeated, returned, writes, worksheet>>

----------------------------------------------------------------------------
(* Sequences *)

Range(s) == {s[i] : i \in 1..Len(s)}

\* The sequence f with its items computed once.
list(f) == f \o <<>>

\* The dictionary f with its items computed once.
dict(f) == f @@ <<>>

\* A local variable: F of the value v, computed once.
With(v, F(_)) == F(v)

\* The sequences of ss one after the other.
RECURSIVE ConcatFromTo(_, _, _)
ConcatFromTo(ss, lo, hi) ==
    IF lo > hi THEN <<>>
    ELSE IF lo = hi THEN ss[lo]
    ELSE ConcatFromTo(ss, lo, (lo + hi) \div 2) \o ConcatFromTo(ss, (lo + hi) \div 2 + 1, hi)

Concat(ss) == ConcatFromTo(ss, 1, Len(ss))

Reverse(s) == list([i \in 1..Len(s) |-> s[Len(s) + 1 - i]])

FromTo(lo, hi, step) == list([i \in 1..(((hi - lo) \div step) + 1) |-> lo + (i - 1) * step])

----------------------------------------------------------------------------
(* Natural numbers of any size *)

\* A natural number is the sequence of its digits in the base 2^14, the
\* lowest first, without a highest digit 0 (<<0>> is zero).  The product of
\* two digits is below 2^31.
LimbBits == 14

Base == 2 ^ LimbBits

RECURSIVE bn_trim(_)
bn_trim(a) ==
    IF Len(a) > 1 /\ a[Len(a)] = 0 THEN bn_trim(SubSeq(a, 1, Len(a) - 1)) ELSE a

bn_limb(a, i) == IF 1 <= i /\ i <= Len(a) THEN a[i] ELSE 0

RECURSIVE bn_of_int(_)
bn_of_int(n) == IF n < Base THEN <<n>> ELSE <<n % Base>> \o bn_of_int(n \div Base)

RECURSIVE bn_to_int(_)
bn_to_int(a) == IF Len(a) = 1 THEN a[1] ELSE a[1] + Base * bn_to_int(Tail(a))

\* The number of bits of a digit and of a number (0 for zero).
RECURSIVE limb_bits_from(_, _, _)
limb_bits_from(x, lo, hi) ==
    IF lo = hi THEN lo
    ELSE IF x < 2 ^ ((lo + hi) \div 2) THEN limb_bits_from(x, lo, (lo + hi) \div 2)
    ELSE limb_bits_from(x, (lo + hi) \div 2 + 1, hi)

limb_bits(x) == limb_bits_from(x, 0, LimbBits)

bn_bitlen(a) == (Len(a) - 1) * LimbBits + limb_bits(a[Len(a)])

\* -1, 0, 1 as a < b, a = b, a > b.
RECURSIVE bn_cmp_from(_, _, _)
bn_cmp_from(a, b, i) ==
    IF i = 0 THEN 0
    ELSE IF a[i] < b[i] THEN -1
    ELSE IF a[i] > b[i] THEN 1
    ELSE bn_cmp_from(a, b, i - 1)

bn_cmp(a, b) ==
    IF Len(a) < Len(b) THEN -1
    ELSE IF Len(a) > Len(b) THEN 1
    ELSE bn_cmp_from(a, b, Len(a))

RECURSIVE bn_add_from(_, _, _, _)
bn_add_from(a, b, i, carry) ==
    IF i > Len(a) /\ i > Len(b)
    THEN (IF carry = 0 THEN <<>> ELSE <<carry>>)
    ELSE LET s == bn_limb(a, i) + bn_limb(b, i) + carry
         IN  <<s % Base>> \o bn_add_from(a, b, i + 1, s \div Base)

bn_add(a, b) == bn_add_from(a, b, 1, 0)

\* a - b for a >= b.
RECURSIVE bn_sub_from(_, _, _, _)
bn_sub_from(a, b, i, borrow) ==
    IF i > Len(a) THEN <<>>
    ELSE LET s == a[i] - bn_limb(b, i) - borrow
         IN  <<s % Base>> \o bn_sub_from(a, b, i + 1, IF s < 0 THEN 1 ELSE 0)

bn_sub(a, b) == bn_trim(bn_sub_from(a, b, 1, 0))

\* The digits of a * k from the digit lo of a up to the digit hi, the lowest
\* first, and after them the carry, for a digit k; carry is what the digits
\* below lo carried.
RECURSIVE bn_mul_small_from(_, _, _, _, _)
bn_mul_small_from(a, k, lo, hi, carry) ==
    IF lo = hi
    THEN <<(a[lo] * k + carry) % Base, (a[lo] * k + carry) \div Base>>
    ELSE LET mid == (lo + hi) \div 2
             low == bn_mul_small_from(a, k, lo, mid, carry)
         IN  SubSeq(low, 1, Len(low) - 1) \o bn_mul_small_from(a, k, mid + 1, hi, low[Len(low)])

\* a * k + c for a digit k and a digit c.
bn_mul_small(a, k, c) == bn_trim(bn_mul_small_from(a, k, 1, Len(a), c))

RECURSIVE bn_column(_, _, _, _)
bn_column(a, b, k, i) ==
    IF i > Len(a) THEN 0
    ELSE bn_limb(b, k + 1 - i) * a[i] + bn_column(a, b, k, i + 1)

RECURSIVE bn_mul_from(_, _, _, _)
bn_mul_from(a, b, k, carry) ==
    IF k > Len(a) + Len(b) THEN <<>>
    ELSE LET s == carry + bn_column(a, b, k, 1)
         IN  <<s % Base>> \o bn_mul_from(a, b, k + 1, s \div Base)

\* a * b, one of the two of no more than 7 digits.
bn_mul(a, b) == bn_trim(bn_mul_from(a, b, 1, 0))

\* a * 2^k.
bn_shl(a, k) ==
    LET w == k \div LimbBits
        b == k % LimbBits
    IN  bn_trim(list([i \in 1..(Len(a) + w + 1) |->
                    IF i <= w THEN 0
                    ELSE ((bn_limb(a, i - w) * 2 ^ b) % Base)
                         + (bn_limb(a, i - w - 1) \div 2 ^ (LimbBits - b))]))

\* a \div 2^k.
bn_shr(a, k) ==
    LET w == k \div LimbBits
        b == k % LimbBits
    IN  IF w >= Len(a) THEN <<0>>
        ELSE bn_trim(list([i \in 1..(Len(a) - w) |->
                         (bn_limb(a, i + w) \div 2 ^ b)
                         + ((bn_limb(a, i + w + 1) % 2 ^ b) * 2 ^ (LimbBits - b))]))

\* a % 2^k.
bn_low(a, k) ==
    LET w == k \div LimbBits
        b == k % LimbBits
    IN  IF w >= Len(a) THEN a
        ELSE bn_trim(list([i \in 1..(w + 1) |-> IF i <= w THEN a[i] ELSE a[i] % 2 ^ b]))

\* The digits of a \div d from the digit hi of a down to the digit lo, the
\* highest first, and after them the rest, for a digit d > 0; r is the rest
\* the digits above hi left.
RECURSIVE bn_divmod_from(_, _, _, _, _)
bn_divmod_from(a, d, lo, hi, r) ==
    IF lo = hi
    THEN <<(r * Base + a[lo]) \div d, (r * Base + a[lo]) % d>>
    ELSE LET mid == (lo + hi + 1) \div 2
             top == bn_divmod_from(a, d, mid, hi, r)
         IN  SubSeq(top, 1, Len(top) - 1) \o bn_divmod_from(a, d, lo, mid - 1, top[Len(top)])

\* <<a \div d, a % d>> for a digit d > 0.
bn_divmod_small(a, d) ==
    LET n == Len(a)
        qr == bn_divmod_from(a, d, 1, n, 0)
    IN  <<bn_trim(list([i \in 1..n |-> qr[n + 1 - i]])), qr[n + 1]>>

\* The number of zero bits at the low end of a digit and of a number, not zero.
limb_zeros(x) == CHOOSE k \in 0..LimbBits : x % 2 ^ k = 0 /\ x % 2 ^ (k + 1) # 0

RECURSIVE bn_zeros_from(_, _)
bn_zeros_from(a, i) ==
    IF a[i] = 0 THEN LimbBits + bn_zeros_from(a, i + 1) ELSE limb_zeros(a[i])

bn_zeros(a) == bn_zeros_from(a, 1)

----------------------------------------------------------------------------
(* Floats: IEEE doubles *)

\* The bits of the significand; the exponent of the lowest bit of the
\* smallest number; the numbers are below 2^1024.
MantissaBits == 53

MinExponent == -1074

MaxExponent == 1024

\* The float NaN: pandas' missing value, the quantile of no numbers.
NaN == <<0, <<0>>, 0>>

\* float('inf').
Infinity == <<1, <<0>>, 1>>

zero(sign) == <<sign, <<0>>, 0>>

infinity(sign) == <<sign, <<0>>, 1>>

\* The double sign * m * 2^e of a number that is one: m of no more
\* than 53 bits, e >= -1074.
double(sign, m, e) ==
    LET bits == bn_bitlen(m)
        zeros == bn_zeros(m)
        t == IF zeros < -e THEN zeros ELSE -e
    IN  IF m = <<0>> THEN zero(sign)
        ELSE IF bits + e > MaxExponent THEN infinity(sign)
        ELSE IF e < 0 THEN <<sign, bn_shr(m, t), e + t>>
        ELSE IF bits + e <= MantissaBits THEN <<sign, bn_shl(m, e), 0>>
        ELSE <<sign, bn_shr(m, zeros), e + zeros>>

\* The double nearest to sign * (n + f) * 2^e, ties to the even neighbour; f
\* is 0, or a number of the open interval (0, 1) when inexact is TRUE.
round(sign, n, e, inexact) ==
    LET more(bits) == IF bits - MantissaBits > MinExponent - e
                      THEN bits - MantissaBits ELSE MinExponent - e
        up(q, c) == c > 0 \/ (c = 0 /\ (inexact \/ q[1] % 2 = 1))
        nearest(q, c) == IF up(q, c) THEN bn_add(q, <<1>>) ELSE q
    IN  With(more(bn_bitlen(n)), LAMBDA drop :
             double(sign,
                    IF drop <= 0 THEN n
                    ELSE nearest(bn_shr(n, drop),
                                 bn_cmp(bn_low(n, drop), bn_shl(<<1>>, drop - 1))),
                    IF drop <= 0 THEN e ELSE e + drop))

\* The float of the integer n: a whole number below 2^53 is its own
\* significand.
Num(n) == <<IF n < 0 THEN -1 ELSE 1, bn_of_int(IF n < 0 THEN -n ELSE n), 0>>

\* -x.
neg(x) == <<-x[1], x[2], x[3]>>

is_nan(x) == x[1] = 0

is_inf(x) == x[1] # 0 /\ x[2] = <<0>> /\ x[3] = 1

is_zero(x) == x[1] # 0 /\ x[2] = <<0>> /\ x[3] = 0

\* -1, 0, 1 as |x| < |y|, |x| = |y|, |x| > |y| for two numbers, not zero.
cmp_abs(x, y) ==
    LET tx == bn_bitlen(x[2]) + x[3]
        ty == bn_bitlen(y[2]) + y[3]
        e == IF x[3] < y[3] THEN x[3] ELSE y[3]
    IN  IF x[3] = y[3] THEN bn_cmp(x[2], y[2])
        ELSE IF tx < ty THEN -1
        ELSE IF tx > ty THEN 1
        ELSE bn_cmp(bn_shl(x[2], x[3] - e), bn_shl(y[2], y[3] - e))

\* -1, 0, 1 as x < y, x == y, x > y for two doubles that are not NaN.
cmp(x, y) ==
    IF is_zero(x) /\ is_zero(y) THEN 0
    ELSE IF is_zero(x) THEN -y[1]
    ELSE IF is_zero(y) THEN x[1]
    ELSE IF x[1] # y[1] THEN x[1]
    ELSE IF is_inf(x) /\ is_inf(y) THEN 0
    ELSE IF is_inf(x) THEN x[1]
    ELSE IF is_inf(y) THEN -y[1]
    ELSE x[1] * cmp_abs(x, y)

\* x <= y, x < y, x == y on floats: False when an operand is NaN.
float_le(x, y) == ~is_nan(x) /\ ~is_nan(y) /\ cmp(x, y) <= 0

float_lt(x, y) == ~is_nan(x) /\ ~is_nan(y) /\ cmp(x, y) < 0

float_eq(x, y) == ~is_nan(x) /\ ~is_nan(y) /\ cmp(x, y) = 0

\* x + y of two numbers, not zero.  A number below the last of 60 further
\* bits of the other only makes the sum inexact.
add_numbers(x, y) ==
    LET far == 60
        e == IF x[3] < y[3] THEN x[3] ELSE y[3]
        beside(big, small) ==
            <<big[1],
              IF big[1] = small[1] THEN bn_shl(big[2], far)
              ELSE bn_sub(bn_shl(big[2], far), <<1>>),
              big[3] - far, TRUE>>
        aligned(a, b) ==
            IF x[1] = y[1] THEN <<x[1], bn_add(a, b), e, FALSE>>
            ELSE IF bn_cmp(a, b) >= 0 THEN <<x[1], bn_sub(a, b), e, FALSE>>
            ELSE <<y[1], bn_sub(b, a), e, FALSE>>
    IN  With(IF x[3] - far >= bn_bitlen(y[2]) + y[3] THEN beside(x, y)
             ELSE IF y[3] - far >= bn_bitlen(x[2]) + x[3] THEN beside(y, x)
             ELSE aligned(bn_shl(x[2], x[3] - e), bn_shl(y[2], y[3] - e)),
             LAMBDA s : IF s[2] = <<0>> THEN zero(1) ELSE round(s[1], s[2], s[3], s[4]))

\* x + y.
add(x, y) ==
    IF is_nan(x) \/ is_nan(y) THEN NaN
    ELSE IF is_inf(x) /\ is_inf(y) THEN (IF x[1] = y[1] THEN x ELSE NaN)
    ELSE IF is_inf(x) THEN x
    ELSE IF is_inf(y) THEN y
    ELSE IF is_zero(x) /\ is_zero(y) THEN (IF x[1] = y[1] THEN x ELSE zero(1))
    ELSE IF is_zero(x) THEN y
    ELSE IF is_zero(y) THEN x
    ELSE add_numbers(x, y)

\* x - y.
sub(x, y) == add(x, neg(y))

\* x * y.
mul(x, y) ==
    IF is_nan(x) \/ is_nan(y) THEN NaN
    ELSE IF is_inf(x) \/ is_inf(y)
    THEN (IF is_zero(x) \/ is_zero(y) THEN NaN ELSE infinity(x[1] * y[1]))
    ELSE IF is_zero(x) \/ is_zero(y) THEN zero(x[1] * y[1])
    ELSE round(x[1] * y[1], bn_mul(x[2], y[2]), x[3] + y[3], FALSE)

\* x / y for the divisors of the class, 100.0, 100 and a number of rows: a
\* divisor whose odd part is a digit.
div(x, y) ==
    IF is_nan(x) \/ is_nan(y) THEN NaN
    ELSE IF is_inf(x) THEN (IF is_inf(y) THEN NaN ELSE infinity(x[1] * y[1]))
    ELSE IF is_inf(y) THEN zero(x[1] * y[1])
    ELSE IF is_zero(y) THEN (IF is_zero(x) THEN NaN ELSE infinity(x[1] * y[1]))
    ELSE IF is_zero(x) THEN zero(x[1] * y[1])
    ELSE LET t == bn_zeros(y[2])
             qr == bn_divmod_small(bn_shl(x[2], 5 * LimbBits), bn_to_int(bn_shr(y[2], t)))
         IN  round(x[1] * y[1], qr[1], x[3] - 5 * LimbBits - y[3] - t, qr[2] # 0)

\* np.floor(x).
floor(x) ==
    IF is_nan(x) \/ is_inf(x) \/ x[3] >= 0 THEN x
    ELSE LET q == bn_shr(x[2], -x[3])
         IN  double(x[1], IF x[1] > 0 THEN q ELSE bn_add(q, <<1>>), 0)

\* x.astype(np.intp) of a whole number below 2^31.
to_int(x) == x[1] * bn_to_int(x[2])

----------------------------------------------------------------------------
(* numpy and pandas: the Series and DataFrame operations the class uses *)

\* current_data <= bound with the missing cells read as zero.
Le_missing_as_zero(value, bound) == float_le(IF is_nan(value) THEN Num(0) ELSE value, bound)

\* current_data <= bound in place of current_data >= bound.
Ge_reversed(value, bound) == float_le(value, bound)

\* current_data >= bounds[column_name][0] and
\* current_data <= bounds[column_name][1]: a cell value and a bound.
Ge(value, bound) == float_le(bound, value)

Le(value, bound) == float_le(value, bound)

\* largest > current_data with >= in place of >.
Gt_or_equal(x, y) == float_le(y, x)

\* largest > current_data, largest >= current_data, smallest < current_data,
\* smallest <= current_data: two cell values.
Gt(x, y) == float_lt(y, x)

GeV(x, y) == float_le(y, x)

Lt(x, y) == float_lt(x, y)

LeV(x, y) == float_le(x, y)

\* Series.dropna.
dropna(series) == SelectSeq(series, LAMBDA v : ~is_nan(v))

\* The number of the items of the ascending numbers a that go before v in
\* the order: the items below v, and the items equal to v when ties is set.
\* The items from a[lo + 1] to a[hi] are left to look at.
RECURSIVE count_before(_, _, _, _, _)
count_before(a, v, ties, lo, hi) ==
    IF lo >= hi THEN lo
    ELSE LET mid == (lo + hi) \div 2
         IN  IF float_lt(a[mid + 1], v) \/ (ties /\ ~float_lt(v, a[mid + 1]))
             THEN count_before(a, v, ties, mid + 1, hi)
             ELSE count_before(a, v, ties, lo, mid)

\* The ascending numbers a and b in one ascending sequence, an item of a
\* before the equal items of b.
merge(a, b) ==
    LET place_a == list([i \in 1..Len(a) |-> i + count_before(b, a[i], FALSE, 0, Len(b))])
        place_b == list([j \in 1..Len(b) |-> j + count_before(a, b[j], TRUE, 0, Len(a))])
    IN  list([k \in 1..(Len(a) + Len(b)) |->
                 IF \E i \in 1..Len(a) : place_a[i] = k
                 THEN a[CHOOSE i \in 1..Len(a) : place_a[i] = k]
                 ELSE b[CHOOSE j \in 1..Len(b) : place_b[j] = k]])

RECURSIVE merge_sort(_)
merge_sort(s) ==
    IF Len(s) <= 1 THEN s
    ELSE merge(merge_sort(SubSeq(s, 1, Len(s) \div 2)),
               merge_sort(SubSeq(s, Len(s) \div 2 + 1, Len(s))))

\* The numbers of s in ascending order; equal numbers keep their order.
SortAscending(s) ==
    IF \A i \in 1..(Len(s) - 1) : ~float_lt(s[i + 1], s[i]) THEN s ELSE merge_sort(s)

\* Series.sort_values sorting the series itself whatever inplace is.
sort_values_of_caller(series, inplace) ==
    LET vals == SortAscending(dropna(series))
        sorted == list([k \in 1..Len(series) |-> IF k <= Len(vals) THEN vals[k] ELSE NaN])
    IN  [returned |-> sorted, series |-> sorted]

\* Series.sort_values(inplace=...): ascending, the NaN last.  The sorted
\* Series is returned and the series is left as it was, unless inplace is
\* set: then the series itself is sorted and None is returned.
sort_values(series, inplace) ==
    With(SortAscending(dropna(series)), LAMBDA vals :
    With(list([k \in 1..Len(series) |-> IF k <= Len(vals) THEN vals[k] ELSE NaN]),
         LAMBDA sorted :
             IF inplace
             THEN [returned |-> "None", series |-> sorted]
             ELSE [returned |-> sorted, series |-> series]))

\* validate_percentile, the first statement of Series.quantile: ValueError
\* unless 0 <= q <= 1 (a NaN q fails both comparisons).
percentile_error(q) ==
    IF float_le(Num(0), q) /\ float_le(q, Num(1)) THEN "ok" ELSE "ValueError"

\* numpy's _lerp: a + (b - a) * t, computed from b when t >= 0.5.
lerp(a, b, t) ==
    With(float_le(double(1, <<1>>, -1), t), LAMBDA from_b :
    With(mul(sub(b, a), IF from_b THEN sub(Num(1), t) ELSE t), LAMBDA diff_b_a_t :
         add(IF from_b THEN b ELSE a, IF from_b THEN neg(diff_b_a_t) ELSE diff_b_a_t)))

\* np.percentile(arr, q, method='linear') of one or more numbers, for
\* 0 <= q <= 100: the virtual index (n - 1) * (q / 100) in the ascending
\* numbers, the item at its floor and the next item, interpolated with the
\* fraction gamma.  An index from n - 1 on reads the last item twice.
percentile(arr, q) ==
    With(SortAscending(arr), LAMBDA sorted :
    With(mul(Num(Len(sorted) - 1), div(q, Num(100))), LAMBDA virtual_indexes :
    With(float_le(Num(Len(sorted) - 1), virtual_indexes), LAMBDA above :
    With(float_lt(virtual_indexes, Num(0)), LAMBDA below :
    With(IF above THEN -1 ELSE IF below THEN 0 ELSE to_int(floor(virtual_indexes)),
         LAMBDA previous_indexes :
             LET n == Len(sorted)
                 next_indexes == IF above \/ below THEN previous_indexes
                                 ELSE previous_indexes + 1
                 take(i) == IF i < 0 THEN sorted[n + i + 1] ELSE sorted[i + 1]
             IN  lerp(take(previous_indexes), take(next_indexes),
                      sub(virtual_indexes, Num(previous_indexes))))))))

\* Series.quantile with the interpolation 'lower': the number at the
\* position rounded down.
quantile_lower(series, q) ==
    LET vals == SortAscending(dropna(series))
        n == Len(vals)
        virtual_indexes == mul(Num(n - 1), div(mul(q, Num(100)), Num(100)))
    IN  IF n = 0 THEN NaN ELSE vals[to_int(floor(virtual_indexes)) + 1]

\* Series.quantile with 0 for the quantile of a series without a number.
quantile_zero_when_empty(series, q) ==
    LET vals == dropna(series)
    IN  IF Len(vals) = 0 THEN Num(0) ELSE percentile(vals, mul(q, Num(100)))

\* Series.quantile(q), interpolation 'linear', for 0 <= q <= 1: the missing
\* values are dropped; the result of an empty series is NaN, else it is
\* np.percentile(values, q * 100.0).
quantile(series, q) ==
    LET vals == dropna(series)
    IN  IF Len(vals) = 0 THEN NaN ELSE percentile(vals, mul(q, Num(100)))

\* The largest (least is not set) or the smallest (least is set) of the
\* numbers from s[lo] to s[hi].
RECURSIVE extreme(_, _, _, _)
extreme(s, least, lo, hi) ==
    IF lo = hi THEN s[lo]
    ELSE LET x == extreme(s, least, lo, (lo + hi) \div 2)
             y == extreme(s, least, (lo + hi) \div 2 + 1, hi)
         IN  IF (IF least THEN float_lt(y, x) ELSE float_lt(x, y)) THEN y ELSE x

\* Series.max() and Series.min(): the missing values are skipped, the
\* result of a series without a number is NaN.
max(series) ==
    LET vals == dropna(series)
    IN  IF Len(vals) = 0 THEN NaN ELSE extreme(vals, FALSE, 1, Len(vals))

min(series) ==
    LET vals == dropna(series)
    IN  IF Len(vals) = 0 THEN NaN ELSE extreme(vals, TRUE, 1, Len(vals))

\* The share taken of the rows that are not missing.
mean_eq_ge_dropna(series, item, percentage) ==
    LET n == Len(dropna(series))
        count == Cardinality({i \in 1..Len(series) : float_eq(series[i], item)})
        mean == IF n = 0 THEN NaN ELSE div(Num(count), Num(n))
    IN  float_le(div(percentage, Num(Scale)), mean)

\* The share compared with > in place of >=.
mean_eq_gt(series, item, percentage) ==
    LET n == Len(series)
        count == Cardinality({i \in 1..n : float_eq(series[i], item)})
        mean == IF n = 0 THEN NaN ELSE div(Num(count), Num(n))
    IN  float_lt(div(percentage, Num(Scale)), mean)

\* (series == item).mean() >= percentage / 100: the share of the rows of the
\* series that equal item, the quotient of two whole numbers, against the
\* quotient of the percentage, both rounded to a float.  NaN equals nothing;
\* the mean of an empty series is NaN, which is >= nothing.
mean_eq_ge(series, item, percentage) ==
    With(Cardinality({i \in 1..Len(series) : float_eq(series[i], item)}), LAMBDA count :
    With(IF Len(series) = 0 THEN NaN ELSE div(Num(count), Num(Len(series))), LAMBDA mean :
         float_le(div(percentage, Num(Scale)), mean)))

\* DataFrame.columns.get_loc(column_name).
get_loc(sheet_data, column_name) ==
    (CHOOSE i \in 1..Len(sheet_data.columns) : sheet_data.columns[i] = column_name) - 1

\* sheet_data[column_name] raises KeyError for a name that is no column.
has_column(sheet_data, column_name) == column_name \in Range(sheet_data.columns)

\* sheet_data[column_name].
column(sheet_data, column_name) == sheet_data.data[get_loc(sheet_data, column_name) + 1]

\* sheet_data.shape[0].
num_rows(sheet_data) == sheet_data.rows

\* sheet_data.iat[row, column_pos]: a negative row counts from the end, a
\* row outside the frame raises IndexError.
iat_in_range(sheet_data, row) == -num_rows(sheet_data) <= row /\ row < num_rows(sheet_data)

iat(sheet_data, row, column_pos) ==
    LET r == IF row < 0 THEN row + num_rows(sheet_data) ELSE row
    IN  sheet_data.data[column_pos + 1][r + 1]

\* The frame with the series put in the place of the column.
with_column(sheet_data, column_name, series) ==
    [sheet_data EXCEPT !.data[get_loc(sheet_data, column_name) + 1] = series]

----------------------------------------------------------------------------
(* _calculate_bounds *)

\* The exception of _calculate_bounds ("ok" for none): the ValueError of
\* the first quantile whose q is outside [0, 1].
calculate_bounds_error(upper_bound, lower_bound) ==
    With(sub(Num(1), div(upper_bound, Num(Scale))), LAMBDA upper_bound_quantile :
    With(div(lower_bound, Num(Scale)), LAMBDA lower_bound_quantile :
    With(percentile_error(upper_bound_quantile), LAMBDA error :
         IF error # "ok" THEN error ELSE percentile_error(lower_bound_quantile))))

\* src/excel_modifier/__init__.py
_calculate_bounds(series, upper_bound, lower_bound) ==
    With(sort_values(series, FALSE).returned, LAMBDA sorted_series :
    With(sub(Num(1), div(upper_bound, Num(Scale))), LAMBDA upper_bound_quantile :
    With(div(lower_bound, Num(Scale)), LAMBDA lower_bound_quantile :
    With(quantile(sorted_series, upper_bound_quantile), LAMBDA x :
    With(quantile(sorted_series, lower_bound_quantile), LAMBDA y :
         <<x, y>>)))))

\* src/main.py: include_zero is accepted and never read.
main_calculate_bounds(series, upper_bound, lower_bound, include_zero) ==
    With(sort_values(series, FALSE).returned, LAMBDA sorted_series :
    With(sub(Num(1), div(upper_bound, Num(Scale))), LAMBDA upper_bound_quantile :
    With(div(lower_bound, Num(Scale)), LAMBDA lower_bound_quantile :
    With(quantile(sorted_series, upper_bound_quantile), LAMBDA x :
    With(quantile(sorted_series, lower_bound_quantile), LAMBDA y :
         <<x, y>>)))))

\* The frame after the bounds dictionary was built or raised: the
\* comprehension calls _calculate_bounds on sheet_data[column_name], name by
\* name, up to the first name that is no column, and each call leaves of its
\* series what series.sort_values() left of it.
RECURSIVE frame_after_bounds(_, _)
frame_after_bounds(sheet_data, column_names) ==
    IF column_names = <<>> \/ ~has_column(sheet_data, column_names[1]) THEN sheet_data
    ELSE frame_after_bounds(
             with_column(sheet_data, column_names[1],
                         sort_values(column(sheet_data, column_names[1]), FALSE).series),
             Tail(column_names))

----------------------------------------------------------------------------
(* The workbook: formats and worksheet.write *)

\* The bg_color of a format: '#FFC7CE' if colour == 'red' else '#C6EFCE'.
bg_color(colour) == IF colour = "red" THEN "#FFC7CE" ELSE "#C6EFCE"

\* book.add_format returns a new format object on every call and appends it
\* to book.formats: the object is told from the others by its place id in
\* that list.  num_formats is the length of the list before the two calls.
upper_colour_format(colour_options, num_formats) ==
    [id |-> num_formats + 1,
     format |-> "upper_colour_format", bg_color |-> bg_color(colour_options[1])]

lower_colour_format(colour_options, num_formats) ==
    [id |-> num_formats + 2,
     format |-> "lower_colour_format", bg_color |-> bg_color(colour_options[2])]

\* The formats the two add_format calls append.
add_formats(colour_options, num_formats) ==
    <<upper_colour_format(colour_options, num_formats),
      lower_colour_format(colour_options, num_formats)>>

\* One call worksheet.write(row, col, value, format) on the sheet's worksheet.
write_call(sheet_name, row, col, value, format) ==
    [sheet |-> sheet_name, row |-> row, col |-> col, value |-> value, format |-> format]

\* The two if statements in the other order: the lower write first.
margin_writes_lower_first(upper, lower, sheet_name, row, col, current_data, colour_options, num_formats) ==
    (IF lower
     THEN <<write_call(sheet_name, row, col, current_data,
                       lower_colour_format(colour_options, num_formats))>>
     ELSE <<>>)
    \o
    (IF upper
     THEN <<write_call(sheet_name, row, col, current_data,
                       upper_colour_format(colour_options, num_formats))>>
     ELSE <<>>)

\* The two if statements of the row loop, in their order: the write with
\* the upper format when the upper condition holds, then the write with the
\* lower format when the lower condition holds.
margin_writes(upper, lower, sheet_name, row, col, current_data, colour_options, num_formats) ==
    (IF upper
     THEN <<write_call(sheet_name, row, col, current_data,
                       upper_colour_format(colour_options, num_formats))>>
     ELSE <<>>)
    \o
    (IF lower
     THEN <<write_call(sheet_name, row, col, current_data,
                       lower_colour_format(colour_options, num_formats))>>
     ELSE <<>>)

\* The cell a write call targets.
cell_of(w) == <<w.sheet, w.row, w.col>>

\* The rows and the columns of a worksheet: xlsxwriter's row_max, col_max.
xls_rowmax == 1048576

xls_colmax == 16384

\* worksheet.write stores the cell unless _check_dimensions refuses the
\* position: a negative row or column, or one from the maximum on.
is_stored(w) == 0 <= w.row /\ w.row < xls_rowmax /\ 0 <= w.col /\ w.col < xls_colmax

\* The worksheet after the write calls ws: a cell holds what the last write
\* to it stored.
after_writes(cells, ws) ==
    LET stored == {i \in 1..Len(ws) : is_stored(ws[i])}
        keys == {cell_of(ws[i]) : i \in stored}
        last(k) == CHOOSE i \in stored :
                       /\ cell_of(ws[i]) = k
                       /\ \A j \in stored : cell_of(ws[j]) = k => j <= i
    IN  [k \in (DOMAIN cells) \cup keys |->
            IF k \in keys
            THEN [value |-> ws[last(k)].value, format |-> ws[last(k)].format]
            ELSE cells[k]]

----------------------------------------------------------------------------
(* Running a loop whose iterations may raise *)

\* One iteration: the exception it raises ("ok" for none) and the write
\* calls it made before.
step(error, ws) == [error |-> error, writes |-> ws]

\* The iterations run up to the first that raises.
first_error(steps) ==
    IF \E i \in 1..Len(steps) : steps[i].error # "ok"
    THEN CHOOSE i \in 1..Len(steps) :
             /\ steps[i].error # "ok"
             /\ \A j \in 1..(i - 1) : steps[j].error = "ok"
    ELSE 0

run_steps(steps) ==
    LET f == first_error(steps)
        done == IF f = 0 THEN steps ELSE SubSeq(steps, 1, f)
    IN  step(IF f = 0 THEN "ok" ELSE steps[f].error,
             Concat([i \in 1..Len(done) |-> done[i].writes]))

\* What the body of the sheet loop did on one sheet: the exception it
\* raised, its write calls, its bounds dictionary when it was built, the
\* formats it added and the frame it leaves.
sheet_run(error, ws, has_bounds, bnds, added, sheet) ==
    [error |-> error, writes |-> ws, has_bounds |-> has_bounds, bounds |-> bnds,
     formats |-> added, sheet |-> sheet]

----------------------------------------------------------------------------
(* src/main.py: colorize_columns *)

\* current_data != 'nan': the cells are numbers or the float NaN, never the
\* string 'nan', so the test lets every cell through.
is_nan_string(current_data) == FALSE

\* The body of the row loop: the write calls of one row of one column.
main_row(sheet_name, sheet_data, column_pos, operation, column_bounds, colour_options, num_formats, row_pos) ==
    LET current_data == iat(sheet_data, row_pos - 1, column_pos)
        upper == /\ operation \in {"colour_upper", "colour_both"}
                 /\ Ge(current_data, column_bounds[1])
        lower == /\ operation \in {"colour_lower", "colour_both"}
                 /\ Le(current_data, column_bounds[2])
    IN  IF is_nan_string(current_data) THEN <<>>
        ELSE margin_writes(upper, lower, sheet_name, row_pos, column_pos,
                           current_data, colour_options, num_formats)

\* for row_pos in range(1, num_rows)
main_row_range(sheet_data) == list([i \in 1..(num_rows(sheet_data) - 1) |-> i])

\* The bounds dictionary of a sheet: {column_name: self._calculate_bounds(...)}.
main_bounds(sheet_data, column_formatting, margin_options) ==
    dict([c \in {column_formatting[i][1] : i \in 1..Len(column_formatting)} |->
             main_calculate_bounds(column(sheet_data, c), margin_options[1], margin_options[2],
                                   FALSE)])

\* The body of the column loop: the iterations of its row loop.
main_column(sheet_name, sheet_data, column_name, operation, column_bounds, colour_options, num_formats) ==
    LET column_pos == get_loc(sheet_data, column_name)
        rows == main_row_range(sheet_data)
    IN  list([ri \in 1..Len(rows) |->
            IF iat_in_range(sheet_data, rows[ri] - 1)
            THEN step("ok", main_row(sheet_name, sheet_data, column_pos, operation,
                                     column_bounds, colour_options, num_formats, rows[ri]))
            ELSE step("IndexError", <<>>)])

\* The exception of building the bounds dictionary ("ok" for none), column
\* by column in the order of the request: KeyError of sheet_data[column_name]
\* for a name that is no column, else the exception of _calculate_bounds.
bounds_error(sheet_data, column_names, margin_options) ==
    run_steps([i \in 1..Len(column_names) |->
                  step(IF ~has_column(sheet_data, column_names[i]) THEN "KeyError"
                       ELSE calculate_bounds_error(margin_options[1], margin_options[2]),
                       <<>>)]).error

\* The body of the sheet loop.  column_formatting is the dictionary as the
\* sequence of its items <<column_name, operation>>; num_formats is the
\* length of book.formats.  The bounds dictionary is built once (the loop
\* ends there when a column raises), then the two formats are added and the
\* column loop runs.
main_sheet(sheet, column_formatting, margin_options, colour_options, num_formats) ==
    With(list([i \in 1..Len(column_formatting) |-> column_formatting[i][1]]), LAMBDA names :
    With([name |-> sheet.name, data |-> frame_after_bounds(sheet.data, names)], LAMBDA after :
    With(bounds_error(sheet.data, names, margin_options), LAMBDA error :
         IF error # "ok"
         THEN sheet_run(error, <<>>, FALSE, <<>>, <<>>, after)
         ELSE With(main_bounds(sheet.data, column_formatting, margin_options), LAMBDA bnds :
              With(run_steps(Concat([ci \in 1..Len(column_formatting) |->
                       main_column(sheet.name, after.data, column_formatting[ci][1],
                                   column_formatting[ci][2],
                                   bnds[column_formatting[ci][1]], colour_options,
                                   num_formats)])),
                   LAMBDA ran :
                       sheet_run(ran.error, ran.writes, TRUE, bnds,
                                 add_formats(colour_options, num_formats), after))))))

----------------------------------------------------------------------------
(* src/excel_modifier/__init__.py: _colourize_columns *)

\* The body of the row loop: the write calls of one row_pos of one column,
\* given what the column loop computed before the row loop.
colourize_row(sheet_name, sheet_data, column_pos, formatting_option, column_bounds, colour_options, write_offsets, num_formats, largest, upper_bound_majority_exists, smallest, lower_bound_majority_exists, row_pos) ==
    LET row_offset == write_offsets[1]
        column_offset == write_offsets[2]
        current_data == iat(sheet_data, row_pos - 1, column_pos)
        upper == /\ formatting_option \in {"colour_upper", "colour_both"}
                 /\ IF upper_bound_majority_exists
                    THEN Gt(largest, current_data) /\ Ge(current_data, column_bounds[1])
                    ELSE GeV(largest, current_data) /\ Ge(current_data, column_bounds[1])
        lower == /\ formatting_option \in {"colour_lower", "colour_both"}
                 /\ IF lower_bound_majority_exists
                    THEN Lt(smallest, current_data) /\ Le(current_data, column_bounds[2])
                    ELSE LeV(smallest, current_data) /\ Le(current_data, column_bounds[2])
    IN  IF is_nan_string(current_data) THEN <<>>
        ELSE margin_writes(upper, lower, sheet_name, row_offset + row_pos - 1,
                           column_offset + column_pos, current_data, colour_options,
                           num_formats)

\* Whether the largest (smallest) item of the column takes up at least
\* majority_percentage% of the column.
upper_bound_majority(current_column, majority_percentage) ==
    mean_eq_ge(current_column, max(current_column), majority_percentage)

lower_bound_majority(current_column, majority_percentage) ==
    mean_eq_ge(current_column, min(current_column), majority_percentage)

\* for row_pos in range(0, num_rows + 1)
colourize_row_range(sheet_data) == list([i \in 1..(num_rows(sheet_data) + 1) |-> i - 1])

\* The bounds dictionary of a sheet: {column_name: self._calculate_bounds(...)}.
colourize_bounds(sheet_data, columns_to_format, margin_options) ==
    dict([c \in Range(columns_to_format) |->
             _calculate_bounds(column(sheet_data, c), margin_options[1], margin_options[2])])

\* The body of the column loop: the iterations of its row loop.
colourize_column(sheet_name, sheet_data, column_name, formatting_option, column_bounds, colour_options, majority_percentage, write_offsets, num_formats) ==
    With(column(sheet_data, column_name), LAMBDA current_column :
    With(max(current_column), LAMBDA largest :
    With(upper_bound_majority(current_column, majority_percentage),
         LAMBDA upper_bound_majority_exists :
    With(min(current_column), LAMBDA smallest :
    With(lower_bound_majority(current_column, majority_percentage),
         LAMBDA lower_bound_majority_exists :
    With(colourize_row_range(sheet_data), LAMBDA rows :
         list([ri \in 1..Len(rows) |->
             IF iat_in_range(sheet_data, rows[ri] - 1)
             THEN step("ok", colourize_row(sheet_name, sheet_data,
                                           get_loc(sheet_data, column_name),
                                           formatting_option, column_bounds, colour_options,
                                           write_offsets, num_formats,
                                           largest, upper_bound_majority_exists,
                                           smallest, lower_bound_majority_exists, rows[ri]))
             ELSE step("IndexError", <<>>)])))))))

\* _colourize_columns skipping the columns the sheet does not have.
colourize_present_columns(sheet, columns_to_format, formatting_option, margin_options, colour_options, majority_percentage, write_offsets, num_formats) ==
    LET sheet_data == sheet.data
        present == SelectSeq(columns_to_format, LAMBDA c : has_column(sheet_data, c))
        bnds == colourize_bounds(sheet_data, present, margin_options)
        after == [name |-> sheet.name, data |-> frame_after_bounds(sheet_data, present)]
        steps == Concat([ci \in 1..Len(present) |->
                     colourize_column(sheet.name, after.data, present[ci],
                                      formatting_option, bnds[present[ci]],
                                      colour_options, majority_percentage, write_offsets,
                                      num_formats)])
        ran == run_steps(steps)
        error == bounds_error(sheet_data, present, margin_options)
        added == add_formats(colour_options, num_formats)
    IN  IF error # "ok"
        THEN sheet_run(error, <<>>, FALSE, <<>>, added, after)
        ELSE sheet_run(ran.error, ran.writes, TRUE, bnds, added, after)

\* The body of the sheet loop: the two formats are added, the bounds
\* dictionary is built once (the loop ends there when a column raises), then
\* the column loop runs with it.  num_formats is the length of book.formats.
_colourize_columns(sheet, columns_to_format, formatting_option, margin_options, colour_options, majority_percentage, write_offsets, num_formats) ==
    With([name |-> sheet.name, data |-> frame_after_bounds(sheet.data, columns_to_format)],
         LAMBDA after :
    With(add_formats(colour_options, num_formats), LAMBDA added :
    With(bounds_error(sheet.data, columns_to_format, margin_options), LAMBDA error :
         IF error # "ok"
         THEN sheet_run(error, <<>>, FALSE, <<>>, added, after)
         ELSE With(colourize_bounds(sheet.data, columns_to_format, margin_options),
                   LAMBDA bnds :
              With(run_steps(Concat([ci \in 1..Len(columns_to_format) |->
                       colourize_column(sheet.name, after.data, columns_to_format[ci],
                                        formatting_option, bnds[columns_to_format[ci]],
                                        colour_options, majority_percentage,
                                        write_offsets, num_formats)])),
                   LAMBDA ran :
                       sheet_run(ran.error, ran.writes, TRUE, bnds, added, after))))))

----------------------------------------------------------------------------
(* The loop over self.sheets_to_modify, shared by the two revisions *)

\* runs[i] is the run of the body on sheet i.  The loop stops at the first
\* sheet whose body raises; the bounds of a sheet are kept when its
\* dictionary was built, and a sheet the loop reached is left as its body
\* left it.
sheets_loop(sheets, runs) ==
    LET errs == list([i \in 1..Len(runs) |-> step(runs[i].error, runs[i].writes)])
        f == first_error(errs)
        reached == IF f = 0 THEN 1..Len(runs) ELSE 1..f
        ran == run_steps(errs)
    IN  [error |-> ran.error,
         writes |-> ran.writes,
         bounds |-> dict([n \in {sheets[i].name : i \in {j \in reached : runs[j].has_bounds}} |->
                             runs[CHOOSE i \in reached : sheets[i].name = n].bounds]),
         formats |-> Concat([i \in 1..Len(runs) |->
                               IF i \in reached THEN runs[i].formats ELSE <<>>]),
         sheets |-> list([i \in 1..Len(sheets) |->
                             IF i \in reached THEN runs[i].sheet ELSE sheets[i]])]

\* The length of book.formats when the loop comes to sheet i: every sheet
\* before it added its two formats.
formats_before(num_formats, i) == num_formats + 2 * (i - 1)

----------------------------------------------------------------------------
(* Python: strings, int() and float() *)

\* The character i of the string s, as a string of length 1.
char(s, i) == SubSeq(s, i, i)

\* x in text, for two strings: x is a substring of text.
is_substring(x, text) ==
    \E i \in 1..(Len(text) - Len(x) + 1) : SubSeq(text, i, i + Len(x) - 1) = x

\* The position of the first substring x of text, 0 when there is none.
find(x, text) ==
    IF is_substring(x, text)
    THEN CHOOSE i \in 1..(Len(text) - Len(x) + 1) :
             /\ SubSeq(text, i, i + Len(x) - 1) = x
             /\ \A j \in 1..(i - 1) : SubSeq(text, j, j + Len(x) - 1) # x
    ELSE 0

\* The characters str.split() splits at, of the characters up to U+00FF:
\* the blank, \t, \n, \r, \f, the vertical tab, the separators U+001C to
\* U+001F, U+0085 and the no-break space U+00A0.
Whitespace ==
    {" ", "\t", "\n", "\r", "\f", "", "", "", "", "", "", " "}

\* The characters int() and float() accept around a numeral: the whitespace
\* but the separators U+001C to U+001F.
NumeralBlanks == Whitespace \ {"", "", "", ""}

\* s.split(): the words of s, the runs of characters between whitespace.
\* A word begins at a character that is no whitespace and follows whitespace
\* or nothing, and ends before the next whitespace.
split(s) ==
    LET is_word(i) == char(s, i) \notin Whitespace
        starts == {i \in 1..Len(s) : is_word(i) /\ (i = 1 \/ ~is_word(i - 1))}
        start(k) == CHOOSE i \in starts : Cardinality({j \in starts : j <= i}) = k
        end(i) == CHOOSE j \in i..Len(s) :
                      /\ \A m \in i..j : is_word(m)
                      /\ j = Len(s) \/ ~is_word(j + 1)
    IN  list([k \in 1..Cardinality(starts) |-> SubSeq(s, start(k), end(start(k)))])

Digits == "0123456789"

UpperCase == "ABCDEFGHIJKLMNOPQRSTUVWXYZ"

is_digit(c) == Len(c) = 1 /\ is_substring(c, Digits)

digit_value(c) == find(c, Digits) - 1

\* s.lower().
RECURSIVE str_lower(_)
str_lower(s) ==
    IF s = "" THEN ""
    ELSE IF Len(s) = 1
    THEN (IF is_substring(s, UpperCase) THEN char("abcdefghijklmnopqrstuvwxyz", find(s, UpperCase)) ELSE s)
    ELSE str_lower(SubSeq(s, 1, Len(s) \div 2)) \o str_lower(SubSeq(s, Len(s) \div 2 + 1, Len(s)))

\* str(n) of an integer n.
RECURSIVE str(_)
str(n) ==
    IF n < 0 THEN "-" \o str(-n)
    ELSE IF n < 10 THEN char(Digits, n + 1)
    ELSE str(n \div 10) \o char(Digits, (n % 10) + 1)

\* s is digits, with single underscores allowed between two digits.
is_digits(s) ==
    /\ Len(s) > 0
    /\ \A i \in 1..Len(s) :
          IF char(s, i) = "_"
          THEN 1 < i /\ i < Len(s) /\ is_digit(char(s, i - 1)) /\ is_digit(char(s, i + 1))
          ELSE is_digit(char(s, i))

\* The number the digits of s write, the underscores skipped; 0 for "".
RECURSIVE digits_value(_)
digits_value(s) ==
    IF s = "" THEN 0
    ELSE IF char(s, Len(s)) = "_" THEN digits_value(SubSeq(s, 1, Len(s) - 1))
    ELSE digits_value(SubSeq(s, 1, Len(s) - 1)) * 10 + digit_value(char(s, Len(s)))

\* The number of digits of s.
count_digits(s) == Cardinality({i \in 1..Len(s) : is_digit(char(s, i))})

\* The word without the blanks int() and float() accept at its two ends.
strip(s) ==
    LET kept == {i \in 1..Len(s) : char(s, i) \notin NumeralBlanks}
    IN  IF kept = {} THEN ""
        ELSE SubSeq(s, CHOOSE i \in kept : \A j \in kept : i <= j,
                       CHOOSE i \in kept : \A j \in kept : j <= i)

\* A numeral without its sign, and the sign.
unsigned(word) ==
    IF Len(word) > 0 /\ char(word, 1) \in {"+", "-"} THEN SubSeq(word, 2, Len(word)) ELSE word

sign(word) == IF Len(word) > 0 /\ char(word, 1) = "-" THEN -1 ELSE 1

\* int(word) raises ValueError unless word is, between whitespace, an
\* optional sign and digits.
is_int(word) == is_digits(unsigned(strip(word)))

int(word) == sign(strip(word)) * digits_value(unsigned(strip(word)))

\* The parts of a decimal numeral without its sign, in lower case:
\* intpart [. fracpart] [e exponent].
mantissa(body) == IF find("e", body) = 0 THEN body ELSE SubSeq(body, 1, find("e", body) - 1)

exponent(body) ==
    IF find("e", body) = 0 THEN "" ELSE SubSeq(body, find("e", body) + 1, Len(body))

intpart(body) ==
    IF find(".", mantissa(body)) = 0 THEN mantissa(body)
    ELSE SubSeq(mantissa(body), 1, find(".", mantissa(body)) - 1)

fracpart(body) ==
    IF find(".", mantissa(body)) = 0 THEN ""
    ELSE SubSeq(mantissa(body), find(".", mantissa(body)) + 1, Len(mantissa(body)))

is_decimal(body) ==
    /\ intpart(body) = "" \/ is_digits(intpart(body))
    /\ fracpart(body) = "" \/ is_digits(fracpart(body))
    /\ intpart(body) # "" \/ fracpart(body) # ""
    /\ find("e", body) = 0 \/ is_digits(unsigned(exponent(body)))

\* a * 5^k; 5^6 is a digit.
RECURSIVE bn_mul_pow5(_, _)
bn_mul_pow5(a, k) ==
    IF k <= 6 THEN bn_mul_small(a, 5 ^ k, 0)
    ELSE LET first == bn_mul_pow5(a, k \div 2)
         IN  IF first = <<0>> THEN first ELSE bn_mul_pow5(first, k - k \div 2)

\* a / 5^k: the quotient rounded down, and whether the division is exact.
RECURSIVE bn_div_pow5(_, _)
bn_div_pow5(a, k) ==
    IF k <= 6
    THEN <<bn_divmod_small(a, 5 ^ k)[1], bn_divmod_small(a, 5 ^ k)[2] = 0>>
    ELSE LET first == bn_div_pow5(a, k \div 2)
             rest == bn_div_pow5(first[1], k - k \div 2)
         IN  IF first[2] THEN rest ELSE <<rest[1], FALSE>>

\* The natural number the digits of s write, of any size, the underscores
\* skipped; zero for "".  The digits of the first half of s are worth the
\* power of ten of the number of digits in the second half.
RECURSIVE bn_digits(_)
bn_digits(s) ==
    IF Len(s) <= 4 THEN bn_of_int(digits_value(s))
    ELSE LET first == bn_digits(SubSeq(s, 1, Len(s) \div 2))
             second == SubSeq(s, Len(s) \div 2 + 1, Len(s))
         IN  IF first = <<0>> THEN bn_digits(second)
             ELSE bn_add(bn_shl(bn_mul_pow5(first, count_digits(second)), count_digits(second)),
                         bn_digits(second))

\* The number the digits of an exponent write, or 1000000 when it is more:
\* an exponent that large makes the float 0.0 or inf whatever it is.
RECURSIVE exponent_value(_)
exponent_value(s) ==
    IF s = "" THEN 0
    ELSE IF char(s, Len(s)) = "_" THEN exponent_value(SubSeq(s, 1, Len(s) - 1))
    ELSE LET v == exponent_value(SubSeq(s, 1, Len(s) - 1)) * 10 + digit_value(char(s, Len(s)))
         IN  IF v > 1000000 THEN 1000000 ELSE v

\* The float of a decimal numeral: the double nearest to its digits times
\* the power of ten, inf for a number too large and 0.0 for one too small.
\* The number digits * 10^power is digits * 5^power * 2^power; for a
\* negative power the quotient by 5^-power is taken with 60 bits more than
\* the quotient of 1 has, and is inexact when the division leaves a rest.
decimal_value(body) ==
    With(bn_digits(intpart(body) \o fracpart(body)), LAMBDA digits :
    With((IF find("e", body) = 0 THEN 0
          ELSE sign(exponent(body)) * exponent_value(unsigned(exponent(body))))
             - count_digits(fracpart(body)),
         LAMBDA power :
             IF digits = <<0>> THEN zero(1)
             ELSE IF power >= 0
             THEN (IF bn_bitlen(digits) - 1 + 3 * power >= MaxExponent + 1 THEN Infinity
                   ELSE round(1, bn_mul_pow5(digits, power), power, FALSE))
             ELSE IF bn_bitlen(digits) + 3 * power < MinExponent - 1 THEN zero(1)
             ELSE With(bn_div_pow5(bn_shl(digits, 3 * (-power) + 60), -power),
                       LAMBDA quotient :
                           round(1, quotient[1], power - (3 * (-power) + 60),
                                 ~quotient[2]))))

\* float(word) raises ValueError unless word is, between whitespace, an
\* optional sign and a decimal numeral, inf, infinity or nan, in any case of
\* the letters.
is_float(word) ==
    \/ str_lower(unsigned(strip(word))) \in {"inf", "infinity", "nan"}
    \/ is_decimal(str_lower(unsigned(strip(word))))

float(word) ==
    With(str_lower(unsigned(strip(word))), LAMBDA body :
    With(IF body = "nan" THEN NaN
         ELSE IF body \in {"inf", "infinity"} THEN Infinity
         ELSE decimal_value(body),
         LAMBDA magnitude : IF sign(strip(word)) = 1 THEN magnitude ELSE neg(magnitude)))

----------------------------------------------------------------------------
(* src/excel_modifier/__init__.py: the instructions string *)

\* POSSIBLE_INSTRUCTIONS = 'MmCcpsoO'.
POSSIBLE_INSTRUCTIONS == "MmCcpsoO"

\* The match statement: params_to_pass after the instruction current_elem
\* with the word next_item.  A word of several letters matches no case.
parse_match(params_to_pass, current_elem, next_item) ==
    CASE current_elem = "M" -> ("margin_upper" :> float(next_item)) @@ params_to_pass
      [] current_elem = "m" -> ("margin_lower" :> float(next_item)) @@ params_to_pass
      [] current_elem = "C" ->
            ("colour_upper" :> (IF next_item = "r" THEN "red" ELSE "green")) @@ params_to_pass
      [] current_elem = "c" ->
            ("colour_lower" :> (IF next_item = "r" THEN "red" ELSE "green")) @@ params_to_pass
      [] current_elem = "p" -> ("majority_percentage" :> float(next_item)) @@ params_to_pass
      [] current_elem = "s" ->
            (CASE next_item = "u" -> ("formatting_option" :> "colour_upper") @@ params_to_pass
               [] next_item = "l" -> ("formatting_option" :> "colour_lower") @@ params_to_pass
               [] next_item = "b" -> ("formatting_option" :> "colour_both") @@ params_to_pass
               [] OTHER -> params_to_pass)
      [] current_elem = "o" -> ("row_offset" :> int(next_item)) @@ params_to_pass
      [] current_elem = "O" -> ("column_offset" :> int(next_item)) @@ params_to_pass
      [] OTHER -> params_to_pass

\* The loop of _parse_instructions from the word i on: the exception it
\* raises ("ok" for none) and params_to_pass.  A word that is a substring of
\* POSSIBLE_INSTRUCTIONS reads the word after it: IndexError when it is the
\* last word.
RECURSIVE parse_loop(_, _, _)
parse_loop(instruction_split, i, params_to_pass) ==
    IF i > Len(instruction_split)
    THEN [error |-> "ok", params |-> params_to_pass]
    ELSE LET current_elem == instruction_split[i]
         IN  IF ~is_substring(current_elem, POSSIBLE_INSTRUCTIONS)
             THEN parse_loop(instruction_split, i + 1, params_to_pass)
             ELSE IF i = Len(instruction_split)
             THEN [error |-> "IndexError", params |-> params_to_pass]
             ELSE LET next_item == instruction_split[i + 1]
                  IN  IF \/ current_elem \in {"M", "m", "p"} /\ ~is_float(next_item)
                         \/ current_elem \in {"o", "O"} /\ ~is_int(next_item)
                      THEN [error |-> "ValueError", params |-> params_to_pass]
                      ELSE parse_loop(instruction_split, i + 1,
                                      parse_match(params_to_pass, current_elem, next_item))

_parse_instructions(instructions) == parse_loop(split(instructions), 1, <<>>)

\* The options colourize_columns and colourize_all read from the parsed
\* instructions.
OptionNames ==
    {"formatting_option", "margin_upper", "margin_lower", "colour_upper", "colour_lower",
     "majority_percentage", "row_offset", "column_offset"}

\* The exception of parsing the instructions and extracting the options:
\* the one _parse_instructions raises, or KeyError for an option the string
\* does not set.
options_error(parsed_instructions) ==
    IF parsed_instructions.error # "ok" THEN parsed_instructions.error
    ELSE IF OptionNames \subseteq DOMAIN parsed_instructions.params THEN "ok"
    ELSE "KeyError"

\* The extracted options.
extract_options(parsed_instructions) ==
    LET params == parsed_instructions.params
    IN  [formatting_option |-> params["formatting_option"],
         margin_options |-> <<params["margin_upper"], params["margin_lower"]>>,
         colour_options |-> <<params["colour_upper"], params["colour_lower"]>>,
         majority_percentage |-> params["majority_percentage"],
         write_offsets |-> <<params["row_offset"], params["column_offset"]>>]

\* colourize_all: the columns of a sheet that are not excluded, in the
\* order of the sheet.
columns_of_all(sheet_data, exlude_columns) ==
    SelectSeq(sheet_data.columns, LAMBDA column_name : column_name \notin Range(exlude_columns))

\* The record of a call made with an instructions string, given the parsed
\* instructions.
instructed_call(fn, columns, instructions, parsed_instructions) ==
    IF options_error(parsed_instructions) # "ok"
    THEN [fn |-> fn, columns |-> columns, instructions |-> instructions, parsed |-> FALSE]
    ELSE [fn |-> fn, columns |-> columns, instructions |-> instructions, parsed |-> TRUE,
          formatting_option |-> extract_options(parsed_instructions).formatting_option,
          margin_options |-> extract_options(parsed_instructions).margin_options,
          colour_options |-> extract_options(parsed_instructions).colour_options,
          majority_percentage |-> extract_options(parsed_instructions).majority_percentage,
          write_offsets |-> extract_options(parsed_instructions).write_offsets]

\* The two public methods from the parsed instructions on: the options are
\* extracted, then _colourize_columns runs on every sheet with the columns
\* of that sheet.  num_formats is the length of book.formats at the call.
instructed_run(sheets, columns_of_sheet, parsed_instructions, num_formats) ==
    IF options_error(parsed_instructions) # "ok"
    THEN [error |-> options_error(parsed_instructions), writes |-> <<>>, bounds |-> <<>>,
          formats |-> <<>>, sheets |-> sheets]
    ELSE With(extract_options(parsed_instructions), LAMBDA options :
              sheets_loop(sheets,
                  list([i \in 1..Len(sheets) |->
                      _colourize_columns(sheets[i], columns_of_sheet[i],
                                         options.formatting_option, options.margin_options,
                                         options.colour_options, options.majority_percentage,
                                         options.write_offsets,
                                         formats_before(num_formats, i))])))

----------------------------------------------------------------------------
(* Inputs *)

\* The floats of a sequence of integers.
Floats(s) == list([i \in 1..Len(s) |-> Num(s[i])])

\* The columns of the generated sheets: every column of up to MaxLen cells
\* that are missing, 0 or 1.
GeneratedColumns == UNION {[1..n -> {NaN, Num(0), Num(1)}] : n \in 0..MaxLen}

\* The columns of the documented scenarios, columns of different numbers in
\* and out of order, of equal numbers, of negative numbers and of fractions,
\* the column 0, 1, .., 10, and a column of 125 rows whose largest number
\* takes up 9 rows: 9 / 125 is 7.2% of the column.
ScenarioColumns ==
    { Floats(FromTo(10, 100, 10)), Floats(FromTo(1, 10, 1)), Floats(FromTo(1, 5, 1)),
      Floats(<<5, 5, 5, 5, 1, 2, 3>>), Floats(<<0, 0, 0, 1, 2, 3, 4, 5>>),
      Floats(<<0, 1, 2>>), Floats(<<2, 1, 1>>), Floats(<<1, 1, 1>>), <<Num(2), NaN, Num(1)>>,
      Floats(<<-20, -10, 0>>), Floats(<<-10, -10, -20>>), Floats(<<-1000, 0, 1000>>),
      <<double(-1, <<1>>, -1), double(1, <<1>>, -1), double(1, <<3>>, -1), NaN>>,
      Floats(FromTo(0, 10, 1)),
      list([i \in 1..125 |-> IF i <= 116 THEN Num(1) ELSE Num(2)]) }

\* A sheet of two columns: 'a' and, in the reverse row order, 'b'.
SheetOf(a) ==
    [name |-> "Sheet1",
     data |-> [columns |-> <<"a", "b">>, rows |-> Len(a), data |-> <<a, Reverse(a)>>]]

Sheets == {SheetOf(a) : a \in GeneratedColumns \cup ScenarioColumns}

\* The series of the direct calls of _calculate_bounds.
BoundsSeries == GeneratedColumns \cup ScenarioColumns \cup {Floats(FromTo(1, 100, 1))}

\* The columns_to_format of colourize_columns; 'zz' is no column of any
\* sheet.  colourize_all passes the columns of the sheet, 'a' and 'b'.
ColumnsToFormat == {<<"a">>, <<"a", "zz">>}

\* The columns of the column_formatting of colorize_columns.
ColumnFormattingColumns == {<<"a">>, <<"b", "a">>, <<"a", "zz">>}

\* Pairs of an upper and a lower percentage.
MarginPercentages == {<<10, 10>>, <<50, 50>>, <<70, 70>>}

MarginOptions == {Floats(m) : m \in MarginPercentages}

\* The margins of the direct calls of _calculate_bounds: with a percentage
\* above 100, below 0, so little below 0 that its quantile is 1.0, and NaN.
BoundsMargins ==
    MarginOptions \cup {<<Num(5), Num(10)>>, <<Num(90), Num(10)>>,
                        <<Num(150), Num(10)>>, <<Num(10), Num(-5)>>, <<NaN, Num(10)>>,
                        <<float("-1e-15"), Num(10)>>}

MajorityPercentages == {50}

WriteOffsets == {<<1, 1>>}

FormattingOptions == {"colour_upper", "colour_lower", "colour_both"}

\* The arguments of colorize_columns: every request with every operation
\* and margin in the colours green and red, and the request of both columns
\* with the operation both in the colours red and green.
ColorizeArguments ==
    { <<columns, operation, margin_options, <<"green", "red">>>> :
        columns \in ColumnFormattingColumns,
        operation \in FormattingOptions \cup {"colour_none"},
        margin_options \in MarginOptions }
    \cup { <<<<"b", "a">>, "colour_both", margin_options, <<"red", "green">>>> :
             margin_options \in MarginOptions }

\* The word of a number, of a colour and of a formatting option.
NumeralOf(n) == str(n)

ColourLetter(colour) == IF colour = "red" THEN "r" ELSE "g"

SectionLetter(formatting_option) ==
    CASE formatting_option = "colour_upper" -> "u"
      [] formatting_option = "colour_lower" -> "l"
      [] formatting_option = "colour_both" -> "b"

\* The instructions string of the given options, in the order of the
\* docstring: 'M 5.0 m 10.0 C g c r p 10.0 s b o 1 O 0'.
InstructionsOf(formatting_option, margin_percentages, colour_options, majority_percentage, write_offsets) ==
    "M " \o NumeralOf(margin_percentages[1]) \o " m " \o NumeralOf(margin_percentages[2])
    \o " C " \o ColourLetter(colour_options[1]) \o " c " \o ColourLetter(colour_options[2])
    \o " p " \o NumeralOf(majority_percentage) \o " s " \o SectionLetter(formatting_option)
    \o " o " \o NumeralOf(write_offsets[1]) \o " O " \o NumeralOf(write_offsets[2])

\* The strings of every section and margin, in the colours green and red.
CompleteInstructions ==
    { InstructionsOf(f, m, <<"green", "red">>, p, w) :
        f \in FormattingOptions, m \in MarginPercentages,
        p \in MajorityPercentages, w \in WriteOffsets }

\* Other strings: the examples of the docstring and of the __main__ block,
\* the scenario of the majority 10, no write offsets, a majority percentage
\* of 7.2, margins of
\* 90 and 10, the options in another order with the colours red and green
\* and a larger row offset, an option given twice, a word of two
\* instruction letters, other whitespace and other numerals, percentages
\* that are no percentages, and strings that raise: an option is missing,
\* the section is none of u, l, b, the string ends with an instruction or
\* with a word of instruction letters, a margin is no number, an offset is
\* no integer.
OtherInstructions ==
    { "M 5.0 m 10.0 C g c r p 10.0 s b o 1 O 0",
      "M 20 m 20 c r C g p 90 s b o 1 O 0",
      "M 35.0 m 35.0 C g c r p 10.0 s b o 1 O 0",
      "M 10 m 10 C g c r p 10 s b o 1 O 1",
      "M 10 m 10 C g c r p 50 s b o 0 O 0",
      "M 70 m 70 C g c r p 50 s b o 0 O 0",
      "M 10 m 10 C g c r p 7.2 s u o 1 O 1",
      "M 90 m 10 C g c r p 50 s b o 1 O 1",
      "s u O 1 o 2 p 50 c g C r m 10 M 10",
      "M 10 m 10 C g c r p 50 s b o 1 O 1 M 50 m 50",
      "M 10 m 10 C g c r p 50 s b o 1 O 1 so x",
      "  M 2.5\tm 1e1 C g c r  p +5_0. s bo -1O 0_1\n",
      "M 50 m 50 C g c r p -inf s b o 1 O 1",
      "M 150 m 10 C g c r p 50 s b o 1 O 1",
      "M 10 m NaN C g c r p 50 s b o 1 O 1",
      "M 10 m 10 C g c r p 50 o 1 O 1",
      "M 10 m 10 C g c r p 50 s x o 1 O 1",
      "M 10 m 10 C g c r p 50 s b o 1 O",
      "M 10 m 10 C g c r p 50 s b o 1 O 1 so",
      "o 1 oO",
      "M 10 Mm",
      "M g m 10 C g c r p 50 s b o 1 O 1",
      "M 1_ m 10 C g c r p 50 s b o 1 O 1",
      "M 10 m 10 C g c r p 50 s b o 5.0 O 1" }

Instructions == CompleteInstructions \cup OtherInstructions

\* parsed_instructions = self._parse_instructions(instructions), for every
\* instructions string of the calls.
ParsedInstructions ==
    dict([instructions \in Instructions |-> _parse_instructions(instructions)])

\* The exlude_columns of colourize_all.
ExcludeOptions == {<<>>, <<"a">>}

----------------------------------------------------------------------------
(* The state machine *)

Init ==
    /\ sheets_to_modify = <<>>
    /\ formats = <<>>
    /\ call = [fn |-> "none"]
    /\ outcome = "none"
    /\ bounds = <<>>
    /\ repeated = FALSE
    /\ returned = <<>>
    /\ writes = <<>>
    /\ worksheet = <<>>

\* set_sheets_to_modify: the dictionary {sheet name: DataFrame}, as the
\* sequence of its items.  A colourizing action is the whole call: the
\* formats it adds to the workbook, its write calls, and the frames as its
\* calls of sort_values leave them.
set_sheets_to_modify ==
    /\ call.fn = "none"
    /\ sheets_to_modify = <<>>
    /\ \E sheet \in Sheets : sheets_to_modify' = <<sheet>>
    /\ UNCHANGED <<formats, call, outcome, bounds, repeated, returned, writes, worksheet>>

\* src/main.py: colorize_columns(column_formatting, margin_options, colour_options).
colorize_columns ==
    /\ call.fn \in {"none", "colorize_columns"}
    /\ ~repeated
    /\ \E arguments_given \in ColorizeArguments :
          LET columns == arguments_given[1]
              operation == arguments_given[2]
              margin_options == arguments_given[3]
              colour_options == arguments_given[4]
              column_formatting == list([i \in 1..Len(columns) |-> <<columns[i], operation>>])
              arguments == [fn |-> "colorize_columns",
                            columns |-> columns,
                            formatting_option |-> operation,
                            margin_options |-> margin_options,
                            colour_options |-> colour_options]
          IN  /\ call.fn = "none" \/ call = arguments
              /\ call' = arguments
              /\ \E ran \in {sheets_loop(sheets_to_modify,
                                 list([i \in 1..Len(sheets_to_modify) |->
                                     main_sheet(sheets_to_modify[i], column_formatting,
                                                margin_options, colour_options,
                                                formats_before(Len(formats), i))]))} :
                    /\ outcome' = ran.error
                    /\ bounds' = ran.bounds
                    /\ writes' = ran.writes
                    /\ worksheet' = after_writes(worksheet, ran.writes)
                    /\ formats' = formats \o ran.formats
                    /\ sheets_to_modify' = ran.sheets
    /\ repeated' = (call.fn # "none")
    /\ UNCHANGED returned

\* src/excel_modifier/__init__.py: colourize_columns(columns, instructions).
colourize_columns ==
    /\ call.fn \in {"none", "colourize_columns"}
    /\ ~repeated
    /\ \E columns \in ColumnsToFormat, instructions \in Instructions :
          /\ IF call.fn = "none" THEN TRUE
             ELSE call.columns = columns /\ call.instructions = instructions
          /\ \E parsed_instructions \in {ParsedInstructions[instructions]} :
             LET columns_of_sheet == list([i \in 1..Len(sheets_to_modify) |-> columns])
             IN  /\ call' = instructed_call("colourize_columns", columns, instructions,
                                            parsed_instructions)
                 /\ \E ran \in {instructed_run(sheets_to_modify, columns_of_sheet,
                                                parsed_instructions, Len(formats))} :
                       /\ outcome' = ran.error
                       /\ bounds' = ran.bounds
                       /\ writes' = ran.writes
                       /\ worksheet' = after_writes(worksheet, ran.writes)
                       /\ formats' = formats \o ran.formats
                       /\ sheets_to_modify' = ran.sheets
    /\ repeated' = (call.fn # "none")
    /\ UNCHANGED returned

\* src/excel_modifier/__init__.py: colourize_all(instructions, exlude_columns).
\* call.columns is the list passed to _colourize_columns for the sheet.
colourize_all ==
    /\ call.fn \in {"none", "colourize_all"}
    /\ ~repeated
    /\ \E exlude_columns \in ExcludeOptions, instructions \in Instructions :
          /\ IF call.fn = "none" THEN TRUE
             ELSE call.exlude_columns = exlude_columns /\ call.instructions = instructions
          /\ \E parsed_instructions \in {ParsedInstructions[instructions]} :
             LET columns_of_sheet == list([i \in 1..Len(sheets_to_modify) |->
                                              columns_of_all(sheets_to_modify[i].data,
                                                             exlude_columns)])
                 columns == IF sheets_to_modify = <<>> THEN <<>> ELSE columns_of_sheet[1]
             IN  /\ call' = [k \in {"exlude_columns"} |-> exlude_columns]
                              @@ instructed_call("colourize_all", columns, instructions,
                                                 parsed_instructions)
                 /\ \E ran \in {instructed_run(sheets_to_modify, columns_of_sheet,
                                                parsed_instructions, Len(formats))} :
                       /\ outcome' = ran.error
                       /\ bounds' = ran.bounds
                       /\ writes' = ran.writes
                       /\ worksheet' = after_writes(worksheet, ran.writes)
                       /\ formats' = formats \o ran.formats
                       /\ sheets_to_modify' = ran.sheets
    /\ repeated' = (call.fn # "none")
    /\ UNCHANGED returned

\* src/excel_modifier/__init__.py: a call of _calculate_bounds on a series.
calculate_bounds_call ==
    /\ call.fn = "none"
    /\ sheets_to_modify = <<>>
    /\ \E series \in BoundsSeries, margin_options \in BoundsMargins :
          /\ call' = [fn |-> "_calculate_bounds",
                      series |-> series,
                      upper_bound |-> margin_options[1],
                      lower_bound |-> margin_options[2]]
          /\ outcome' = calculate_bounds_error(margin_options[1], margin_options[2])
          /\ returned' = IF outcome' = "ok"
                         THEN _calculate_bounds(series, margin_options[1], margin_options[2])
                         ELSE <<>>
    /\ UNCHANGED <<sheets_to_modify, formats, bounds, repeated, writes, worksheet>>

\* src/main.py: a call of _calculate_bounds on a series.
main_calculate_bounds_call ==
    /\ call.fn = "none"
    /\ sheets_to_modify = <<>>
    /\ \E series \in BoundsSeries, margin_options \in BoundsMargins, include_zero \in BOOLEAN :
          /\ call' = [fn |-> "main._calculate_bounds",
                      series |-> series,
                      upper_bound |-> margin_options[1],
                      lower_bound |-> margin_options[2],
                      include_zero |-> include_zero]
          /\ outcome' = calculate_bounds_error(margin_options[1], margin_options[2])
          /\ returned' = IF outcome' = "ok"
                         THEN main_calculate_bounds(series, margin_options[1], margin_options[2],
                                                    include_zero)
                         ELSE <<>>
    /\ UNCHANGED <<sheets_to_modify, formats, bounds, repeated, writes, worksheet>>

Next ==
    \/ set_sheets_to_modify
    \/ calculate_bounds_call
    \/ main_calculate_bounds_call
    \/ colorize_columns
    \/ colourize_columns
    \/ colourize_all

Spec == Init /\ [][Next]_vars

----------------------------------------------------------------------------
(* Reading the state of a finished call *)

\* The call runs _colourize_columns.
CallsHelper == call.fn \in {"colourize_columns", "colourize_all"}

Colourizing == call.fn = "colorize_columns" \/ (CallsHelper /\ call.parsed)

\* The sheet of the call and one of its columns.
TheSheet == sheets_to_modify[1]

ColumnData(c) == TheSheet.data.data[get_loc(TheSheet.data, c) + 1]

NumRows == TheSheet.data.rows

\* The worksheet cell of the data row r (from 0) of column c.  main.py writes
\* the data row r at the worksheet row r + 1, below the header row;
\* _colourize_columns is given the offsets.
RowOffset == IF CallsHelper THEN call.write_offsets[1] ELSE 1

ColumnOffset == IF CallsHelper THEN call.write_offsets[2] ELSE 0

CellPosition(c, r) ==
    <<TheSheet.name, RowOffset + r, ColumnOffset + get_loc(TheSheet.data, c)>>

\* A position on the worksheet: a write to another position stores nothing.
OnWorksheet(k) == 0 <= k[2] /\ k[2] < xls_rowmax /\ 0 <= k[3] /\ k[3] < xls_colmax

IsUpper(w) == w.format.format = "upper_colour_format"

IsLower(w) == w.format.format = "lower_colour_format"

\* What a write call shows: its position, its value and the colour of its
\* format, without the identity of the format object.
Shown(w) ==
    [sheet |-> w.sheet, row |-> w.row, col |-> w.col, value |-> w.value,
     format |-> w.format.format, bg_color |-> w.format.bg_color]

ShownWrites(ws) == [i \in 1..Len(ws) |-> Shown(ws[i])]

\* What the cells of the worksheet show: value and colour.
ShownCells(cells) ==
    [k \in DOMAIN cells |->
        [value |-> cells[k].value, format |-> cells[k].format.format,
         bg_color |-> cells[k].format.bg_color]]

\* x <= y and x < y of two floats that are not NaN.
AtMost(x, y) == cmp(x, y) <= 0

Below(x, y) == cmp(x, y) < 0

\* The numbers of a column, its largest and smallest number, and how many
\* rows hold a given number.
Numbers(col) == {v \in Range(col) : ~is_nan(v)}

Largest(col) == CHOOSE m \in Numbers(col) : \A v \in Numbers(col) : AtMost(v, m)

Smallest(col) == CHOOSE m \in Numbers(col) : \A v \in Numbers(col) : AtMost(m, v)

\* A percentage: a number from 0 to 100.
IsPercentage(p) == ~is_nan(p) /\ AtMost(Num(0), p) /\ AtMost(p, Num(Scale))

\* The margins of the colourizing call are percentages.
ValidMargins == IsPercentage(call.margin_options[1]) /\ IsPercentage(call.margin_options[2])

Count(col, v) == Cardinality({i \in 1..Len(col) : ~is_nan(col[i]) /\ cmp(col[i], v) = 0})

\* The share of the rows of the column that hold v is at least the majority
\* percentage, the two quotients being the floats count / rows and
\* majority_percentage / 100.
TakesUpMajority(col, v) ==
    /\ Len(col) > 0
    /\ float_le(div(call.majority_percentage, Num(Scale)), div(Num(Count(col, v)), Num(Len(col))))

\* The upper (lower) write of the data row r of column c was made.
UpperWriteOf(c, r) ==
    \E i \in 1..Len(writes) :
        /\ cell_of(writes[i]) = CellPosition(c, r)
        /\ IsUpper(writes[i])
        /\ writes[i].value = ColumnData(c)[r + 1]

LowerWriteOf(c, r) ==
    \E i \in 1..Len(writes) :
        /\ cell_of(writes[i]) = CellPosition(c, r)
        /\ IsLower(writes[i])
        /\ writes[i].value = ColumnData(c)[r + 1]

\* The writes of column c: the writes to its worksheet column.
WritesOf(c) ==
    {i \in 1..Len(writes) : writes[i].col = ColumnOffset + get_loc(TheSheet.data, c)}

\* A call of a helper that ran to its end on a sheet.
HelperRan == CallsHelper /\ outcome = "ok" /\ sheets_to_modify # <<>>

\* _colourize_columns leaves the largest (smallest) number of column c out
\* of its margin: the number takes up the majority percentage.
LargestExcluded(c) ==
    /\ CallsHelper
    /\ Numbers(ColumnData(c)) # {}
    /\ TakesUpMajority(ColumnData(c), Largest(ColumnData(c)))

SmallestExcluded(c) ==
    /\ CallsHelper
    /\ Numbers(ColumnData(c)) # {}
    /\ TakesUpMajority(ColumnData(c), Smallest(ColumnData(c)))

\* The value v lies in the upper (lower) margin of column c as the call
\* decides it: at or above the upper bound (at or below the lower bound) and
\* not the largest (smallest) number when that is left out.
InUpperMargin(c, v, excluded) ==
    /\ ~is_nan(v)
    /\ ~is_nan(bounds[TheSheet.name][c][1])
    /\ AtMost(bounds[TheSheet.name][c][1], v)
    /\ excluded => Below(v, Largest(ColumnData(c)))

InLowerMargin(c, v, excluded) ==
    /\ ~is_nan(v)
    /\ ~is_nan(bounds[TheSheet.name][c][2])
    /\ AtMost(v, bounds[TheSheet.name][c][2])
    /\ excluded => Below(Smallest(ColumnData(c)), v)

\* The values of row_pos in the row loop of the call, the value the loop
\* reads at a row_pos, sheet_data.iat[row_pos - 1, column_pos] (the row -1
\* is the last row), and the worksheet cell it writes to.
RowPositions == IF CallsHelper THEN 0..NumRows ELSE 1..(NumRows - 1)

ValueAt(c, row_pos) == ColumnData(c)[IF row_pos = 0 THEN NumRows ELSE row_pos]

TargetOf(c, row_pos) == CellPosition(c, row_pos - 1)

----------------------------------------------------------------------------
(* C1: the end-to-end scenario *)

ScoreScenario ==
    /\ call.fn = "colourize_columns"
    /\ call.parsed
    /\ sheets_to_modify = <<SheetOf(Floats(FromTo(10, 100, 10)))>>
    /\ call.columns = <<"a">>
    /\ call.formatting_option = "colour_both"
    /\ call.margin_options = <<Num(10), Num(10)>>
    /\ call.colour_options = <<"green", "red">>
    /\ call.majority_percentage = Num(10)

\* C1 as claimed: in the scenario (column [10, 20, .., 100], directive both,
\* margins (10, 10), colours (green, red), majority 10) the bounds are 91 and
\* 19, the cell holding 100 ends green, the cell holding 10 ends red and the
\* other eight cells are not coloured.
C1_AsClaimed ==
    ScoreScenario =>
        /\ bounds["Sheet1"]["a"] = <<Num(91), Num(19)>>
        /\ \A r \in 0..9 :
              LET k == CellPosition("a", r)
                  v == ColumnData("a")[r + 1]
              IN  /\ v = Num(100) => k \in DOMAIN worksheet /\ worksheet[k].format.bg_color = "#C6EFCE"
                  /\ v = Num(10) => k \in DOMAIN worksheet /\ worksheet[k].format.bg_color = "#FFC7CE"
                  /\ v \notin {Num(10), Num(100)} => k \notin DOMAIN worksheet

\* C1, amended: in the scenario the bounds are 91 and 19 and no cell is
\* coloured: 100 and 10 each take up 1/10 >= 10% of the column, so each is a
\* majority value and is excluded from its margin, and no other value lies
\* in a margin.
C1_ScoreScenario ==
    ScoreScenario =>
        /\ outcome = "ok"
        /\ bounds["Sheet1"]["a"] = <<Num(91), Num(19)>>
        /\ writes = <<>>
        /\ worksheet = <<>>

C1_Witness == ScoreScenario /\ outcome = "ok"

----------------------------------------------------------------------------
(* C2: a cell in both margins *)

\* C2 as claimed: under the directive both, a cell of a requested column
\* whose value satisfies the upper and the lower condition ends with the
\* upper format.
C2_AsClaimed ==
    (Colourizing /\ outcome = "ok" /\ sheets_to_modify # <<>>
        /\ call.formatting_option = "colour_both") =>
        \A c \in Range(call.columns) :
            LET largest_excluded == LargestExcluded(c)
                smallest_excluded == SmallestExcluded(c)
            IN  \A r \in 0..(NumRows - 1) :
                    (InUpperMargin(c, ColumnData(c)[r + 1], largest_excluded)
                        /\ InLowerMargin(c, ColumnData(c)[r + 1], smallest_excluded))
                    => /\ CellPosition(c, r) \in DOMAIN worksheet
                       /\ IsUpper(worksheet[CellPosition(c, r)])

\* C2, amended: under the directive both, every cell the row loop evaluates
\* whose value satisfies the upper and the lower condition gets exactly two
\* writes, one after the other: first the value with the upper format, then
\* the value with the lower format; when its position is on the worksheet
\* the cell ends with the lower format of the call.
C2_LowerWins ==
    (Colourizing /\ outcome = "ok" /\ sheets_to_modify # <<>>
        /\ call.formatting_option = "colour_both") =>
        \A c \in Range(call.columns) :
            LET largest_excluded == LargestExcluded(c)
                smallest_excluded == SmallestExcluded(c)
            IN  \A row_pos \in RowPositions :
                    LET v == ValueAt(c, row_pos)
                        k == TargetOf(c, row_pos)
                    IN  (InUpperMargin(c, v, largest_excluded)
                            /\ InLowerMargin(c, v, smallest_excluded)) =>
                            /\ Cardinality({i \in 1..Len(writes) : cell_of(writes[i]) = k}) = 2
                            /\ \E i \in 1..(Len(writes) - 1) :
                                  /\ cell_of(writes[i]) = k /\ cell_of(writes[i + 1]) = k
                                  /\ IsUpper(writes[i]) /\ IsLower(writes[i + 1])
                                  /\ writes[i].value = v /\ writes[i + 1].value = v
                            /\ OnWorksheet(k) =>
                                  /\ k \in DOMAIN worksheet
                                  /\ IsLower(worksheet[k])
                                  /\ worksheet[k].format.bg_color = bg_color(call.colour_options[2])
                                  /\ worksheet[k].value = v

\* An evaluated cell on the worksheet satisfies both conditions.
C2_Witness ==
    /\ Colourizing
    /\ outcome = "ok"
    /\ sheets_to_modify # <<>>
    /\ call.formatting_option = "colour_both"
    /\ \E c \in Range(call.columns), row_pos \in RowPositions :
          /\ InUpperMargin(c, ValueAt(c, row_pos), LargestExcluded(c))
          /\ InLowerMargin(c, ValueAt(c, row_pos), SmallestExcluded(c))
          /\ OnWorksheet(TargetOf(c, row_pos))
          /\ Cardinality(Numbers(ColumnData(c))) >= 2

----------------------------------------------------------------------------
(* C3: the majority value is excluded from its margin *)

\* The word of the majority percentage in the instructions of the call.
PercentageWord ==
    LET words == split(call.instructions)
    IN  words[(CHOOSE i \in 1..(Len(words) - 1) : words[i] = "p") + 1]

\* The instructions give the majority percentage once, as digits with or
\* without a decimal point.
PercentageWritten ==
    /\ CallsHelper
    /\ call.parsed
    /\ Cardinality({i \in 1..Len(split(call.instructions)) : split(call.instructions)[i] = "p"}) = 1
    /\ is_decimal(PercentageWord)
    /\ find("e", PercentageWord) = 0
    /\ find("_", PercentageWord) = 0
    /\ float(PercentageWord) = call.majority_percentage

\* The share of the rows of the column that hold v is at least the majority
\* percentage as it is written, in exact arithmetic: with the percentage
\* digits / 10^places, count / rows >= digits / 10^places / 100.
ExactlyMajority(col, v) ==
    LET digits == digits_value(intpart(PercentageWord) \o fracpart(PercentageWord))
        places == count_digits(fracpart(PercentageWord))
    IN  /\ Len(col) > 0
        /\ Count(col, v) * Scale * 10 ^ places >= digits * Len(col)

\* C3 as claimed: when the share of the largest number of a column, in exact
\* arithmetic, is at least the majority percentage written in the
\* instructions, no write with the upper format carries the largest number;
\* symmetrically for the smallest number and the lower format.
C3_AsClaimed ==
    (HelperRan /\ PercentageWritten) =>
        \A c \in Range(call.columns) :
            LET col == ColumnData(c)
            IN  Numbers(col) # {} =>
                /\ ExactlyMajority(col, Largest(col)) =>
                      \A i \in WritesOf(c) :
                          IsUpper(writes[i]) => writes[i].value # Largest(col)
                /\ ExactlyMajority(col, Smallest(col)) =>
                      \A i \in WritesOf(c) :
                          IsLower(writes[i]) => writes[i].value # Smallest(col)

\* C3, amended: in _colourize_columns, when the largest number of a column
\* takes up at least majority_percentage% of the column, the share and the
\* percentage compared as the floats count / rows and
\* majority_percentage / 100, no write with the upper format carries the
\* largest number, while under the directives upper and both every row with
\* upper bound <= value < largest is written with the upper format;
\* symmetrically for the smallest number and the lower format.
C3_MajorityExcluded ==
    HelperRan =>
        \A c \in Range(call.columns) :
            LET col == ColumnData(c)
                b == bounds[TheSheet.name][c]
            IN  Numbers(col) # {} =>
                /\ TakesUpMajority(col, Largest(col)) =>
                      /\ \A i \in WritesOf(c) :
                            IsUpper(writes[i]) => writes[i].value # Largest(col)
                      /\ call.formatting_option \in {"colour_upper", "colour_both"} =>
                            \A r \in 0..(NumRows - 1) :
                                (~is_nan(col[r + 1]) /\ Below(col[r + 1], Largest(col))
                                    /\ ~is_nan(b[1]) /\ AtMost(b[1], col[r + 1]))
                                => UpperWriteOf(c, r)
                /\ TakesUpMajority(col, Smallest(col)) =>
                      /\ \A i \in WritesOf(c) :
                            IsLower(writes[i]) => writes[i].value # Smallest(col)
                      /\ call.formatting_option \in {"colour_lower", "colour_both"} =>
                            \A r \in 0..(NumRows - 1) :
                                (~is_nan(col[r + 1]) /\ Below(Smallest(col), col[r + 1])
                                    /\ ~is_nan(b[2]) /\ AtMost(col[r + 1], b[2]))
                                => LowerWriteOf(c, r)

\* The largest number is a majority value at or above the upper bound, it
\* is not written, and a smaller number of the upper margin is.
C3_Witness ==
    /\ call.fn = "colourize_columns"
    /\ outcome = "ok"
    /\ sheets_to_modify # <<>>
    /\ call.formatting_option = "colour_upper"
    /\ LET col == ColumnData("a")
       IN  /\ Numbers(col) # {}
           /\ TakesUpMajority(col, Largest(col))
           /\ AtMost(bounds[TheSheet.name]["a"][1], Largest(col))
           /\ \E r \in 0..(NumRows - 1) :
                 /\ ~is_nan(col[r + 1])
                 /\ Below(col[r + 1], Largest(col))
                 /\ UpperWriteOf("a", r)

----------------------------------------------------------------------------
(* C4: where a write goes and what it carries *)

\* C4 as claimed: every write of a colourizing call targets the worksheet
\* cell of a data row r, 0 <= r < num_rows, of a requested column, and
\* carries the value of that row of that column.
C4_AsClaimed ==
    (Colourizing /\ sheets_to_modify # <<>>) =>
        \A i \in 1..Len(writes) :
            \E c \in Range(call.columns), r \in 0..(NumRows - 1) :
                /\ cell_of(writes[i]) = CellPosition(c, r)
                /\ writes[i].value = ColumnData(c)[r + 1]

----------------------------------------------------------------------------
(* C5: missing cells *)

RequestedColumnsExist == \A c \in Range(call.columns) : has_column(TheSheet.data, c)

\* C5: a colourizing call writes no cell whose value is missing and no write
\* carries a missing value; a missing cell raises nothing: on a sheet with a
\* missing cell the call ends without an exception when the requested
\* columns exist and the margins are percentages.
C5_MissingNotWritten ==
    (Colourizing /\ sheets_to_modify # <<>>) =>
        /\ \A i \in 1..Len(writes) : ~is_nan(writes[i].value)
        /\ \A c \in Range(call.columns) :
              has_column(TheSheet.data, c) =>
                  \A r \in 0..(NumRows - 1) :
                      is_nan(ColumnData(c)[r + 1]) =>
                          /\ \A i \in 1..Len(writes) : cell_of(writes[i]) # CellPosition(c, r)
                          /\ CellPosition(c, r) \notin DOMAIN worksheet
                          /\ (RequestedColumnsExist /\ ValidMargins) => outcome = "ok"

\* A requested column holds a missing cell and a number, and the number was
\* written.
C5_Witness ==
    /\ Colourizing
    /\ sheets_to_modify # <<>>
    /\ outcome = "ok"
    /\ \E r \in 0..(NumRows - 1) : is_nan(ColumnData("a")[r + 1])
    /\ \E i \in WritesOf("a") : writes[i].value \in Numbers(ColumnData("a"))

----------------------------------------------------------------------------
(* C6: zeros in the bounds *)

NonZero(series) == SelectSeq(series, LAMBDA v : ~is_zero(v))

\* C6 as claimed: with include_zero = False, _calculate_bounds returns the
\* bounds of the series without its zero cells.
C6_AsClaimed ==
    (call.fn = "main._calculate_bounds" /\ call.include_zero = FALSE /\ outcome = "ok") =>
        returned = main_calculate_bounds(NonZero(call.series), call.upper_bound,
                                         call.lower_bound, FALSE)

----------------------------------------------------------------------------
(* C7: zeros in the row loop *)

\* C7 as claimed: no write of a colourizing call carries the value zero.
C7_AsClaimed ==
    Colourizing => \A i \in 1..Len(writes) : ~is_zero(writes[i].value)

----------------------------------------------------------------------------
(* C8: the quantiles of 1..100 *)

HundredScenario ==
    /\ call.fn \in {"_calculate_bounds", "main._calculate_bounds"}
    /\ call.series = Floats(FromTo(1, 100, 1))
    /\ call.upper_bound = Num(5)
    /\ call.lower_bound = Num(10)

\* C8 as claimed: for the series 1, 2, .., 100 the upper bound of the upper
\* margin 5 is 96 and the lower bound of the lower margin 10 is 10.9.
C8_AsClaimed == HundredScenario => returned = <<Num(96), float("10.9")>>

\* C8, amended: for the series 1, 2, .., 100 the upper bound of the upper
\* margin 5 is 95.05, the 0.95 quantile with linear interpolation (position
\* 0.95 * 99 = 94.05, between 95 and 96), and the lower bound of the lower
\* margin 10 is 10.9, the 0.10 quantile (position 9.9, between 10 and 11).
C8_Quantiles == HundredScenario => returned = <<float("95.05"), float("10.9")>>

C8_Witness == HundredScenario /\ outcome = "ok"

----------------------------------------------------------------------------
(* C9: what counts as a majority *)

\* The rows of the column left after dropping the missing and the zero cells.
EligibleCount(col) == Cardinality({i \in 1..Len(col) : ~is_nan(col[i]) /\ ~is_zero(col[i])})

ShareOfEligible(col, v) ==
    /\ EligibleCount(col) > 0
    /\ float_le(div(call.majority_percentage, Num(Scale)),
                div(Num(Count(col, v)), Num(EligibleCount(col))))

\* Every row of column c that holds v has (has not) its upper or lower write.
RowsWritten(c, v, Written(_, _)) ==
    \A r \in 0..(NumRows - 1) : ColumnData(c)[r + 1] = v => Written(c, r)

RowsNotWritten(c, v, Written(_, _)) ==
    \A r \in 0..(NumRows - 1) : ColumnData(c)[r + 1] = v => ~Written(c, r)

\* In the columns Covered, the rows of an extreme of a column are left out
\* of its margin exactly when Majority holds of the extreme, and are written
\* otherwise.
ExtremesFollow(Majority(_, _), Covered(_)) ==
    HelperRan =>
        \A c \in Range(call.columns) :
            LET col == ColumnData(c)
            IN  (Numbers(col) # {} /\ Covered(col)) =>
                /\ call.formatting_option \in {"colour_upper", "colour_both"} =>
                      IF Majority(col, Largest(col))
                      THEN RowsNotWritten(c, Largest(col), UpperWriteOf)
                      ELSE RowsWritten(c, Largest(col), UpperWriteOf)
                /\ call.formatting_option \in {"colour_lower", "colour_both"} =>
                      IF Majority(col, Smallest(col))
                      THEN RowsNotWritten(c, Smallest(col), LowerWriteOf)
                      ELSE RowsWritten(c, Smallest(col), LowerWriteOf)

\* C9 as claimed: the largest (smallest) number of a column is treated as a
\* majority value exactly when the rows that hold it, divided by the rows
\* left after dropping the missing and the zero cells, are at least
\* majority_percentage / 100.  Stated of the columns that keep a cell.
C9_AsClaimed == ExtremesFollow(ShareOfEligible, LAMBDA col : EligibleCount(col) > 0)

\* C9, amended: the largest (smallest) number of a column is treated as a
\* majority value exactly when the float count / rows is at least the float
\* majority_percentage / 100, count being the rows that hold the number and
\* rows all the rows of the column, missing and zero cells included.  The
\* two quotients are rounded before they are compared: 9 rows of 125 are no
\* majority at the percentage 7.2.
C9_ShareOfColumn == ExtremesFollow(TakesUpMajority, LAMBDA col : TRUE)

\* The largest number takes up exactly the percentage written in the
\* instructions, the two floats say it does not, and its rows were written.
C9_Witness ==
    /\ call.fn = "colourize_columns"
    /\ outcome = "ok"
    /\ sheets_to_modify # <<>>
    /\ PercentageWritten
    /\ call.formatting_option = "colour_upper"
    /\ LET col == ColumnData("a")
       IN  /\ Numbers(col) # {}
           /\ ExactlyMajority(col, Largest(col))
           /\ Count(col, Largest(col)) * Scale * 10 = 72 * Len(col)
           /\ ~TakesUpMajority(col, Largest(col))
           /\ \E r \in 0..(NumRows - 1) : col[r + 1] = Largest(col) /\ UpperWriteOf("a", r)

----------------------------------------------------------------------------
(* C10: a requested column that the sheet does not have *)

AbsentRequested ==
    /\ Colourizing
    /\ sheets_to_modify # <<>>
    /\ \E c \in Range(call.columns) : ~has_column(TheSheet.data, c)

PresentColumns == SelectSeq(call.columns, LAMBDA c : has_column(TheSheet.data, c))

\* The writes of the call had it been given its present columns alone.
WritesOfPresentColumns ==
    IF CallsHelper
    THEN _colourize_columns(TheSheet, PresentColumns, call.formatting_option,
                            call.margin_options, call.colour_options,
                            call.majority_percentage, call.write_offsets, 0).writes
    ELSE main_sheet(TheSheet,
                    [i \in 1..Len(PresentColumns) |-> <<PresentColumns[i], call.formatting_option>>],
                    call.margin_options, call.colour_options, 0).writes

\* C10 as claimed: when a requested column is absent from the sheet, the
\* other requested columns still get all their writes.
C10_AsClaimed == AbsentRequested => ShownWrites(writes) = ShownWrites(WritesOfPresentColumns)

\* C10, amended: when a requested column is absent from the sheet, the call
\* ends with an exception raised while the bounds dictionary is built, before
\* the first write: no bounds are kept and no cell of any column is written.
\* The exception is the KeyError of the absent column when the margins are
\* percentages; a margin that is none raises ValueError at the first
\* requested column the sheet has, when that column comes first.
C10_Aborted ==
    AbsentRequested =>
        /\ outcome \in {"KeyError", "ValueError"}
        /\ ValidMargins => outcome = "KeyError"
        /\ bounds = <<>>
        /\ writes = <<>>
        /\ worksheet = <<>>

\* An absent column was requested with a column that has cells to colour.
C10_Witness == AbsentRequested /\ outcome = "KeyError" /\ WritesOfPresentColumns # <<>>

----------------------------------------------------------------------------
(* C11: a column without a number *)

BoundsCall == call.fn \in {"_calculate_bounds", "main._calculate_bounds"}

\* C11 as claimed: _calculate_bounds on a series without a number ends in
\* InsufficientDataError.
C11_AsClaimed ==
    (BoundsCall /\ Numbers(call.series) = {}) => outcome = "InsufficientDataError"

\* C11, amended: with margins that are percentages, _calculate_bounds on a
\* series without a number raises nothing and returns the pair (NaN, NaN);
\* a colourizing call keeps these bounds for such a column, writes no cell
\* of it, and ends without an exception when the sheet has a row and the
\* requested columns exist.
C11_NaNBounds ==
    /\ (BoundsCall /\ Numbers(call.series) = {}
           /\ IsPercentage(call.upper_bound) /\ IsPercentage(call.lower_bound)) =>
          outcome = "ok" /\ returned = <<NaN, NaN>>
    /\ (Colourizing /\ sheets_to_modify # <<>>) =>
          \A c \in Range(call.columns) :
              (has_column(TheSheet.data, c) /\ Numbers(ColumnData(c)) = {}) =>
                  /\ WritesOf(c) = {}
                  /\ (RequestedColumnsExist /\ ValidMargins) =>
                        bounds[TheSheet.name][c] = <<NaN, NaN>>
                  /\ (RequestedColumnsExist /\ ValidMargins /\ NumRows > 0) =>
                        outcome = "ok"

\* A colourizing call on a sheet with rows whose requested column holds
\* missing cells only.
C11_Witness ==
    /\ Colourizing
    /\ sheets_to_modify # <<>>
    /\ outcome = "ok"
    /\ NumRows > 0
    /\ call.formatting_option = "colour_both"
    /\ Numbers(ColumnData("a")) = {}
    /\ bounds[TheSheet.name]["a"] = <<NaN, NaN>>

----------------------------------------------------------------------------
(* C12: the same call made twice *)

\* C12: a colourizing call leaves the frames of the sheets as they were, so
\* a second call with the same arguments reads the data the first call
\* read; the second call makes write calls that show the same positions,
\* values and colours in the same order as the first (its two formats are
\* new objects of the same colours), ends the same way, computes the same
\* bounds and leaves the cells of the worksheet showing what they showed.
C12_Idempotent ==
    [][Colourizing' =>
          /\ sheets_to_modify' = sheets_to_modify
          /\ repeated' => /\ ShownWrites(writes') = ShownWrites(writes)
                          /\ outcome' = outcome
                          /\ bounds' = bounds
                          /\ ShownCells(worksheet') = ShownCells(worksheet)]_vars

\* The call was made twice on a column that is not in ascending order, it
\* wrote more than one cell, and the writes of the second call carry the
\* formats the second call added.
C12_Witness ==
    /\ Colourizing
    /\ repeated
    /\ outcome = "ok"
    /\ Len(writes) >= 2
    /\ \E i, j \in 1..Len(writes) : writes[i].row # writes[j].row
    /\ \A i \in 1..Len(writes) : writes[i].format.id > 2
    /\ \E c \in Range(call.columns) :
          ColumnData(c) # sort_values(ColumnData(c), FALSE).returned

----------------------------------------------------------------------------
(* C13: a cell written with both formats *)

\* The requested columns written at the worksheet column of the write w.
ColumnsOfWrite(w) ==
    {c \in Range(call.columns) :
        has_column(TheSheet.data, c) /\ w.col = ColumnOffset + get_loc(TheSheet.data, c)}

\* The two margins take up no more than the whole column.
MarginsDisjoint ==
    /\ ValidMargins
    /\ AtMost(add(call.margin_options[1], call.margin_options[2]), Num(Scale))

\* The writes i and j target one cell, i with the upper and j with the lower format.
BothFormats(i, j) ==
    /\ cell_of(writes[i]) = cell_of(writes[j])
    /\ IsUpper(writes[i])
    /\ IsLower(writes[j])

\* C13 as claimed: a cell is written with the upper and with the lower
\* format only when upper_pct + lower_pct > 100.
C13_AsClaimed ==
    Colourizing =>
        \A i, j \in 1..Len(writes) : BothFormats(i, j) => ~MarginsDisjoint

\* C13, amended: a cell is written with the upper and with the lower format
\* only when its value lies between the two bounds computed for its column,
\* upper bound <= value <= lower bound; the two writes carry that value.
\* Margins that sum to more than 100 are not needed for it.
C13_BetweenBounds ==
    Colourizing =>
        \A i, j \in 1..Len(writes) :
            BothFormats(i, j) =>
                \A c \in ColumnsOfWrite(writes[i]) :
                    LET b == bounds[TheSheet.name][c]
                        v == writes[i].value
                    IN  /\ v = writes[j].value
                        /\ ~is_nan(v) /\ ~is_nan(b[1]) /\ ~is_nan(b[2])
                        /\ AtMost(b[1], v)
                        /\ AtMost(v, b[2])

\* A cell was written with both formats although the margins sum to no
\* more than 100, in a column that holds different numbers.
C13_Witness ==
    /\ Colourizing
    /\ MarginsDisjoint
    /\ \E i, j \in 1..Len(writes) :
          /\ BothFormats(i, j)
          /\ \E c \in ColumnsOfWrite(writes[i]) : Cardinality(Numbers(ColumnData(c))) >= 2

----------------------------------------------------------------------------
(* C14: the rows colorize_columns visits *)

\* The number of writes with the given format to the cell of row r of column c.
FormatWrites(c, r, Format(_)) ==
    Cardinality({i \in 1..Len(writes) :
                    cell_of(writes[i]) = CellPosition(c, r) /\ Format(writes[i])})

\* C14 as claimed: in colorize_columns every data row 0 .. num_rows - 1 of a
\* requested column is evaluated once: a row whose value satisfies the
\* margin condition of the directive is written once with that colour at
\* the worksheet row one below its index, and a row that does not is not
\* written with it.
C14_AsClaimed ==
    (call.fn = "colorize_columns" /\ outcome = "ok" /\ sheets_to_modify # <<>>) =>
        \A c \in Range(call.columns) :
            \A r \in 0..(NumRows - 1) :
                LET v == ColumnData(c)[r + 1]
                    b == bounds[TheSheet.name][c]
                    upper == /\ call.formatting_option \in {"colour_upper", "colour_both"}
                             /\ ~is_nan(v) /\ ~is_nan(b[1]) /\ AtMost(b[1], v)
                    lower == /\ call.formatting_option \in {"colour_lower", "colour_both"}
                             /\ ~is_nan(v) /\ ~is_nan(b[2]) /\ AtMost(v, b[2])
                IN  /\ FormatWrites(c, r, IsUpper) = IF upper THEN 1 ELSE 0
                    /\ FormatWrites(c, r, IsLower) = IF lower THEN 1 ELSE 0
                    /\ upper => UpperWriteOf(c, r)
                    /\ lower => LowerWriteOf(c, r)

====
